---- MODULE Spec2Model ----
(***************************************************************************)
(* Model of the documentation indexing and search core of manuals-mcp:     *)
(* the markdown parser (internal/indexer/parser.go), the indexing pass     *)
(* (internal/indexer/indexer.go) and the SQLite storage and query builder  *)
(* (internal/db/schema.go, internal/db/queries.go).                        *)
(*                                                                         *)
(* A Go string is modelled as a sequence of one-character strings, so that *)
(* prefix tests, splitting, trimming and replacement are computed          *)
(* character by character as the Go standard library does.                 *)
(***************************************************************************)
EXTENDS Integers, Sequences, FiniteSets, TLC

VARIABLES
    query,      \* SearchOptions.Query handed to SearchDevices
    ftsQuery,   \* the FTS5 expression buildFTSQuery returned
    qpc,        \* "input" before buildFTSQuery ran, "done" after
    found,      \* the latest SearchDevices call: its options and what it returned
    category,   \* Frontmatter.Category of the document being parsed
    model,      \* Frontmatter.Model of the document being parsed
    domain,     \* ParsedDocument.Domain
    devType,    \* ParsedDocument.Type
    deviceID,   \* ParsedDocument.ID
    cpc,        \* "input", then "done" once the classifier or the id generator ran
    body,       \* the markdown body handed to extractPinouts, as its lines
    pos,        \* the number of lines scanner.Scan has delivered
    inTable,    \* extractPinouts: inTable
    headerFound,\* extractPinouts: headerFound
    pinouts,    \* extractPinouts: the records appended so far
    devices,    \* table devices: id -> row
    search_fts, \* virtual table search_fts: its rows in rowid order
    pinoutRows, \* table pinouts: <<device_id, physical_pin>> -> row
    guides,     \* table guides: id -> row
    upserts,    \* history: id -> the latest InsertDevice call for it, its error, and
                \* the number of calls for the id since the tables were last emptied
    calls,      \* history: the number of storage calls made
    faults,     \* history: the number of storage statements that failed
    got,        \* the latest GetDevice call: its id, what it returned, its call number
    ipc,        \* IndexDocumentation: "idle", "walking" or "returned"
    clearOpt,   \* IndexOptions.Clear of the pass
    walked,     \* the entries of the directory filepath.Walk has handed to the callback
    result,     \* IndexResult: TotalFiles, SuccessCount, ErrorCount, DevicesByType;
                \* Nil when IndexDocumentation returned no result
    retErr,     \* IndexDocumentation returned an error (and a nil result)
    last,       \* history: the entry of the latest callback, its parse and its outcome
    passes,     \* history: the number of passes started
    visits,     \* history: the number of callbacks run, over all passes
    jobs,       \* concurrent IndexDocumentation calls on one database: for each its
                \* position, the entries its walk has visited and its result
    pub,        \* handlePublish or handlePublishBatch: the tool, its position, its
                \* arguments, the calls it made to the API and the polls of its
                \* wait loop
    remote,     \* the reindex status the API reports: "idle" or "running"
    pinCall,    \* the latest InsertPinouts call: its device id, its list, its error
    naming      \* getDeviceName: the frontmatter block of the file and the name
                \* given to its device

varsQ == <<query, ftsQuery, qpc, found>>
varsC == <<category, model, domain, devType, deviceID, cpc>>
varsP == <<body, pos, inTable, headerFound, pinouts>>
varsDB == <<devices, search_fts, pinoutRows, guides>>
varsH == <<upserts, calls, faults, got>>
varsI == <<ipc, clearOpt, walked, result, retErr, last, passes, visits>>
varsY == <<pinCall, naming>>
varsX == <<jobs, pub, remote, pinCall, naming>>

vars == <<query, ftsQuery, qpc, found, category, model, domain, devType, deviceID, cpc,
          body, pos, inTable, headerFound, pinouts,
          devices, search_fts, pinoutRows, guides, upserts, calls, faults, got,
          ipc, clearOpt, walked, result, retErr, last, passes, visits,
          jobs, pub, remote, pinCall, naming>>

----------------------------------------------------------------------------
(* Go standard library string functions, on sequences of characters.       *)

MinOf(S) == CHOOSE x \in S : \A y \in S : x <= y
MaxOf(S) == CHOOSE x \in S : \A y \in S : x >= y

\* unicode.IsSpace restricted to the ASCII white space the inputs use.
IsSpace(c) == c \in {" ", "\t", "\n", "\r"}

\* strings.TrimSpace
TrimSpace(s) ==
    LET keep == {i \in 1..Len(s) : ~IsSpace(s[i])}
    IN  IF keep = {} THEN <<>> ELSE SubSeq(s, MinOf(keep), MaxOf(keep))

\* strings.Contains
Contains(s, sub) ==
    \E i \in 1..(Len(s) - Len(sub) + 1) : SubSeq(s, i, i + Len(sub) - 1) = sub

\* strings.Count for a one-character pattern.
CountOf(s, c) == Cardinality({i \in 1..Len(s) : s[i] = c})

\* strings.HasPrefix
HasPrefix(s, p) == Len(s) >= Len(p) /\ SubSeq(s, 1, Len(p)) = p

\* strings.HasSuffix
HasSuffix(s, p) == Len(s) >= Len(p) /\ SubSeq(s, Len(s) - Len(p) + 1, Len(s)) = p

\* strings.Index: the 0-based offset of the first occurrence, -1 when absent.
Index(s, sub) ==
    LET at == {i \in 1..(Len(s) - Len(sub) + 1) : SubSeq(s, i, i + Len(sub) - 1) = sub}
    IN  IF at = {} THEN -1 ELSE MinOf(at) - 1

\* strings.FieldsFunc: the maximal runs of characters outside seps, in order;
\* empty runs are dropped.
RECURSIVE FieldsFrom(_, _, _, _)
FieldsFrom(s, seps, i, cur) ==
    IF i > Len(s)
    THEN IF cur = <<>> THEN <<>> ELSE <<cur>>
    ELSE IF s[i] \in seps
         THEN (IF cur = <<>> THEN <<>> ELSE <<cur>>) \o FieldsFrom(s, seps, i + 1, <<>>)
         ELSE FieldsFrom(s, seps, i + 1, Append(cur, s[i]))

FieldsFunc(s, seps) == FieldsFrom(s, seps, 1, <<>>)

\* strings.Fields: split around runs of white space.
Fields(s) == FieldsFunc(s, {" ", "\t", "\n", "\r"})

\* strings.Split with a one-character separator: every segment, empty ones
\* included, so the result always has at least one element.
RECURSIVE SplitFrom(_, _, _, _)
SplitFrom(s, sep, i, cur) ==
    IF i > Len(s)
    THEN <<cur>>
    ELSE IF s[i] = sep
         THEN <<cur>> \o SplitFrom(s, sep, i + 1, <<>>)
         ELSE SplitFrom(s, sep, i + 1, Append(cur, s[i]))

Split(s, sep) == SplitFrom(s, sep, 1, <<>>)

\* strings.Join
RECURSIVE Join(_, _)
Join(elems, sep) ==
    IF elems = <<>> THEN <<>>
    ELSE IF Len(elems) = 1 THEN elems[1]
    ELSE elems[1] \o sep \o Join(Tail(elems), sep)

\* strings.ReplaceAll for a one-character pattern.
RECURSIVE ReplaceAll(_, _, _)
ReplaceAll(s, old, new) ==
    IF s = <<>> THEN <<>>
    ELSE (IF Head(s) = old THEN new ELSE <<Head(s)>>) \o ReplaceAll(Tail(s), old, new)

\* strings.ToLower on the ASCII letters.
UpperLetters == <<"A", "B", "C", "D", "E", "F", "G", "H", "I", "J", "K", "L", "M",
                  "N", "O", "P", "Q", "R", "S", "T", "U", "V", "W", "X", "Y", "Z">>
LowerLetters == <<"a", "b", "c", "d", "e", "f", "g", "h", "i", "j", "k", "l", "m",
                  "n", "o", "p", "q", "r", "s", "t", "u", "v", "w", "x", "y", "z">>
Digits == {"0", "1", "2", "3", "4", "5", "6", "7", "8", "9"}

ToLowerChar(c) ==
    IF \E i \in 1..26 : UpperLetters[i] = c
    THEN LowerLetters[CHOOSE i \in 1..26 : UpperLetters[i] = c]
    ELSE c

ToLower(s) == [i \in 1..Len(s) |-> ToLowerChar(s[i])]

\* strings.Trim(s, cutset): leading and trailing characters of cutset removed.
Trim(s, cutset) ==
    LET keep == {i \in 1..Len(s) : s[i] \notin cutset}
    IN  IF keep = {} THEN <<>> ELSE SubSeq(s, MinOf(keep), MaxOf(keep))

\* regexp `[^class]+` ReplaceAllString(s, repl): every maximal run of
\* characters outside class becomes one repl.
RECURSIVE ReplaceRunsFrom(_, _, _, _, _)
ReplaceRunsFrom(s, class, repl, i, inRun) ==
    IF i > Len(s) THEN <<>>
    ELSE IF s[i] \in class
         THEN <<s[i]>> \o ReplaceRunsFrom(s, class, repl, i + 1, FALSE)
         ELSE (IF inRun THEN <<>> ELSE repl) \o ReplaceRunsFrom(s, class, repl, i + 1, TRUE)

ReplaceAllRegexNot(s, class, repl) == ReplaceRunsFrom(s, class, repl, 1, FALSE)

----------------------------------------------------------------------------
(* Domain/type classifier and device id: internal/indexer/parser.go        *)

DomainHardware == "hardware"
DomainSoftware == "software"
DomainProtocol == "protocol"

StrLibraries == <<"l", "i", "b", "r", "a", "r", "i", "e", "s", "/">>
StrFrameworks == <<"f", "r", "a", "m", "e", "w", "o", "r", "k", "s", "/">>
StrApplications == <<"a", "p", "p", "l", "i", "c", "a", "t", "i", "o", "n", "s", "/">>
StrSoftware == <<"s", "o", "f", "t", "w", "a", "r", "e", "/">>
StrProtocols == <<"p", "r", "o", "t", "o", "c", "o", "l", "s", "/">>
StrProtocol == <<"p", "r", "o", "t", "o", "c", "o", "l", "/">>
StrUnknown == <<"u", "n", "k", "n", "o", "w", "n">>

\* The same prefix tests on the category as given, without lowercasing.
getDomainCaseSensitive(cat) ==
    IF \/ HasPrefix(cat, StrLibraries)
       \/ HasPrefix(cat, StrFrameworks)
       \/ HasPrefix(cat, StrApplications)
       \/ HasPrefix(cat, StrSoftware)
    THEN DomainSoftware
    ELSE IF HasPrefix(cat, StrProtocols) \/ HasPrefix(cat, StrProtocol)
         THEN DomainProtocol
         ELSE DomainHardware

getDomainFromCategory(cat) ==
    LET lowerCat == ToLower(cat)
    IN  IF \/ HasPrefix(lowerCat, StrLibraries)
           \/ HasPrefix(lowerCat, StrFrameworks)
           \/ HasPrefix(lowerCat, StrApplications)
           \/ HasPrefix(lowerCat, StrSoftware)
        THEN DomainSoftware
        ELSE IF HasPrefix(lowerCat, StrProtocols) \/ HasPrefix(lowerCat, StrProtocol)
             THEN DomainProtocol
             ELSE DomainHardware

getTypeFromCategory(cat) ==
    LET parts == Split(cat, "/")
    IN  IF Len(parts) = 0 THEN StrUnknown ELSE parts[Len(parts)]

LowerAlnum == {LowerLetters[i] : i \in 1..26} \cup Digits

\* The id built without trimming the normalized model.
generateDeviceIDNoTrim(cat, mdl) ==
    LET catNorm == ReplaceAllRegexNot(ToLower(ReplaceAll(cat, "/", <<"-">>)),
                                      LowerAlnum \cup {"-"}, <<"-">>)
        modelNorm == ReplaceAllRegexNot(ToLower(mdl), LowerAlnum, <<"-">>)
    IN  catNorm \o <<"-">> \o modelNorm

generateDeviceID(cat, mdl) ==
    LET catNorm == ReplaceAllRegexNot(ToLower(ReplaceAll(cat, "/", <<"-">>)),
                                      LowerAlnum \cup {"-"}, <<"-">>)
        modelNorm == Trim(ReplaceAllRegexNot(ToLower(mdl), LowerAlnum, <<"-">>), {"-"})
    IN  catNorm \o <<"-">> \o modelNorm

----------------------------------------------------------------------------
(* Pinout table extractor: internal/indexer/parser.go                      *)

StrPhysical == <<"p", "h", "y", "s", "i", "c", "a", "l">>
StrPin == <<"p", "i", "n">>
StrPipePinPipe == <<"|", " ", "p", "i", "n", " ", "|">>
StrPipePin == <<"|", " ", "p", "i", "n">>
StrHigh == <<"h", "i", "g", "h">>
StrLow == <<"l", "o", "w">>
StrNone == <<"n", "o", "n", "e">>

\* A Go pointer or slice that may be nil: <<>> is nil, <<v>> holds v.
Nil == <<>>
Some(v) == <<v>>

DigitValue(c) == CHOOSE n \in 0..9 : <<"0", "1", "2", "3", "4", "5", "6", "7", "8", "9">>[n + 1] = c

\* strconv.Atoi: an optional sign and one or more decimal digits.
AtoiDigits(s) == IF s # <<>> /\ s[1] \in {"+", "-"} THEN Tail(s) ELSE s

AtoiOk(s) ==
    /\ AtoiDigits(s) # <<>>
    /\ \A i \in 1..Len(AtoiDigits(s)) : AtoiDigits(s)[i] \in Digits

RECURSIVE DecimalValue(_)
DecimalValue(ds) ==
    IF ds = <<>> THEN 0
    ELSE 10 * DecimalValue(SubSeq(ds, 1, Len(ds) - 1)) + DigitValue(ds[Len(ds)])

AtoiValue(s) ==
    IF s[1] = "-" THEN 0 - DecimalValue(AtoiDigits(s)) ELSE DecimalValue(AtoiDigits(s))

\* The loop "trim every piece, keep the non-empty ones".
RECURSIVE TrimmedNonEmpty(_)
TrimmedNonEmpty(pieces) ==
    IF pieces = <<>> THEN <<>>
    ELSE (IF TrimSpace(Head(pieces)) = <<>> THEN <<>> ELSE <<TrimSpace(Head(pieces))>>)
         \o TrimmedNonEmpty(Tail(pieces))

\* parsePinoutRow without the test of what strconv.Atoi returned: a row whose
\* first cell is no number yields a record for pin 0.
parsePinoutRowAnyPin(row) ==
    LET cleanCells == TrimmedNonEmpty(Split(row, "|"))
        n == Len(cleanCells)
        gpioStr == cleanCells[2]
    IN  IF n < 3 THEN Nil
        ELSE Some(
            [ PhysicalPin  |-> IF AtoiOk(cleanCells[1]) THEN AtoiValue(cleanCells[1]) ELSE 0,
              GPIO         |-> IF gpioStr # <<"-">> /\ gpioStr # <<>> /\ AtoiOk(gpioStr)
                               THEN Some(AtoiValue(gpioStr)) ELSE Nil,
              Name         |-> IF cleanCells[3] = <<"-">> THEN <<>> ELSE cleanCells[3],
              DefaultPull  |-> Nil,
              AltFunctions |-> <<>>,
              Description  |-> Nil ])

\* parsePinoutRow: Nil when the row is skipped, else the record.
parsePinoutRow(row) ==
    LET cleanCells == TrimmedNonEmpty(Split(row, "|"))
        n == Len(cleanCells)
        gpioStr == cleanCells[2]
        pullStr == ToLower(cleanCells[4])
        altStr == cleanCells[5]
        desc == cleanCells[6]
    IN  IF n < 3 THEN Nil
        ELSE IF ~AtoiOk(cleanCells[1]) THEN Nil
        ELSE Some(
            [ PhysicalPin  |-> AtoiValue(cleanCells[1]),
              GPIO         |-> IF gpioStr # <<"-">> /\ gpioStr # <<>> /\ AtoiOk(gpioStr)
                               THEN Some(AtoiValue(gpioStr)) ELSE Nil,
              Name         |-> IF cleanCells[3] = <<"-">> THEN <<>> ELSE cleanCells[3],
              DefaultPull  |-> IF n > 3
                               THEN IF Contains(pullStr, StrHigh) THEN Some(StrHigh)
                                    ELSE IF Contains(pullStr, StrLow) THEN Some(StrLow)
                                    ELSE IF Contains(pullStr, StrNone) THEN Some(StrNone)
                                    ELSE Nil
                               ELSE Nil,
              AltFunctions |-> IF n > 4 /\ altStr # <<"-">> /\ altStr # <<>>
                               THEN TrimmedNonEmpty(Split(altStr, ","))
                               ELSE <<>>,
              Description  |-> IF n > 5 /\ desc # <<"-">> /\ desc # <<>>
                               THEN Some(desc) ELSE Nil ])

\* The two header tests of extractPinouts on the lowercased line.
IsHeader(trimmed) ==
    LET lowerLine == ToLower(trimmed)
    IN  \/ Contains(lowerLine, StrPhysical) /\ Contains(lowerLine, StrPin)
        \/ Contains(lowerLine, StrPipePinPipe)
        \/ HasPrefix(lowerLine, StrPipePin)

\* The scanner loop without its last test: a line without a pipe leaves the
\* table open.
ScanStepKeepsTable(line, st) ==
    LET trimmed == TrimSpace(line)
        hasPipe == Contains(trimmed, <<"|">>)
    IN  IF ~st.inTable /\ hasPipe /\ IsHeader(trimmed)
        THEN [st EXCEPT !.headerFound = TRUE]
        ELSE IF st.headerFound /\ hasPipe /\ Contains(trimmed, <<"-">>)
        THEN [st EXCEPT !.inTable = TRUE]
        ELSE IF st.inTable /\ hasPipe
        THEN [st EXCEPT !.pinouts = st.pinouts \o parsePinoutRow(trimmed)]
        ELSE st

\* One iteration of the scanner loop of extractPinouts on one line: the new
\* values of inTable, headerFound and pinouts.
ScanStep(line, st) ==
    LET trimmed == TrimSpace(line)
        hasPipe == Contains(trimmed, <<"|">>)
    IN  IF ~st.inTable /\ hasPipe /\ IsHeader(trimmed)
        THEN [st EXCEPT !.headerFound = TRUE]
        ELSE IF st.headerFound /\ hasPipe /\ Contains(trimmed, <<"-">>)
        THEN [st EXCEPT !.inTable = TRUE]
        ELSE IF st.inTable /\ hasPipe
        THEN IF trimmed = <<>>
             THEN [st EXCEPT !.inTable = FALSE, !.headerFound = FALSE]
             ELSE [st EXCEPT !.pinouts = st.pinouts \o parsePinoutRow(trimmed)]
        ELSE IF st.inTable /\ ~hasPipe
        THEN [st EXCEPT !.inTable = FALSE, !.headerFound = FALSE]
        ELSE st

\* extractPinouts on a whole body: the scanner loop run over every line.
RECURSIVE ScanFrom(_, _, _)
ScanFrom(lines, i, st) ==
    IF i > Len(lines) THEN st ELSE ScanFrom(lines, i + 1, ScanStep(lines[i], st))

extractPinouts(lines) ==
    ScanFrom(lines, 1, [inTable |-> FALSE, headerFound |-> FALSE, pinouts |-> <<>>]).pinouts

----------------------------------------------------------------------------
(* Frontmatter, metadata and ParseMarkdownFile: internal/indexer/parser.go *)

StrDelimOpen == <<"-", "-", "-", "\n">>
StrDelimClose == <<"\n", "-", "-", "-">>

\* Go values of dynamic type, as they sit in a map[string]interface{}.
GoString(x) == [t |-> "string", v |-> x]
GoStrings(x) == [t |-> "[]string", v |-> x]
GoInt(x) == [t |-> "int", v |-> x]
GoFloat64(x) == [t |-> "float64", v |-> x]
GoAnySlice(x) == [t |-> "[]interface {}", v |-> x]
GoStringMap(x) == [t |-> "map[string]interface {}", v |-> x]
GoAnyMap(x) == [t |-> "map[interface {}]interface {}", v |-> x]

\* The empty map: a function with no key.
EmptyMap == <<>>

\* The zero Frontmatter.
EmptyFrontmatter ==
    [ Manufacturer |-> <<>>, Model |-> <<>>, Category |-> <<>>, Version |-> <<>>,
      Date |-> <<>>, Tags |-> <<>>, Datasheets |-> <<>>, RelatedHardware |-> <<>>,
      Specs |-> EmptyMap ]

\* gopkg.in/yaml.v3 is outside the repository. A frontmatter block is
\* written with one letter standing for one well-formed YAML line:
\*   m  model: DS            f  manufacturer: Ac
\*   h  category: a/b        s  category: software/b
\*   t  tags: [x, y]         p  specs: {v: 5}
\*   q  specs: {k: {1: z}}   (a nested mapping with a key that is no string)
\*   M  model: ds            S  category: software-b
\* Any other text in the block, two letters on one line, or a key given
\* twice makes yaml.Unmarshal return an error.
YamlKeyOf(c) ==
    IF c \in {"m", "M"} THEN "model"
    ELSE IF c = "f" THEN "manufacturer"
    ELSE IF c \in {"h", "s", "S"} THEN "category"
    ELSE IF c = "t" THEN "tags"
    ELSE "specs"

YamlLetters == {"m", "f", "h", "s", "t", "p", "q", "M", "S"}

YamlOk(y) ==
    LET ls == Split(y, "\n")
        used == {i \in 1..Len(ls) : ls[i] # <<>>}
    IN  /\ \A i \in used : Len(ls[i]) = 1 /\ ls[i][1] \in YamlLetters
        /\ \A i, j \in used : i # j => YamlKeyOf(ls[i][1]) # YamlKeyOf(ls[j][1])

YamlUnmarshal(y) ==
    LET has(c) == CountOf(y, c) > 0
    IN  [ Manufacturer    |-> IF has("f") THEN <<"A", "c">> ELSE <<>>,
          Model           |-> IF has("m") THEN <<"D", "S">>
                              ELSE IF has("M") THEN <<"d", "s">>
                              ELSE <<>>,
          Category        |-> IF has("h") THEN <<"a", "/", "b">>
                              ELSE IF has("s") THEN StrSoftware \o <<"b">>
                              ELSE IF has("S")
                              THEN SubSeq(StrSoftware, 1, Len(StrSoftware) - 1) \o <<"-", "b">>
                              ELSE <<>>,
          Version         |-> <<>>,
          Date            |-> <<>>,
          Tags            |-> IF has("t") THEN << <<"x">>, <<"y">> >> ELSE <<>>,
          Datasheets      |-> <<>>,
          RelatedHardware |-> <<>>,
          Specs           |-> IF has("p") THEN [k \in {"v"} |-> GoInt(5)]
                              ELSE IF has("q")
                              THEN [k \in {"k"} |-> GoAnyMap([n \in {1} |-> GoString(<<"z">>)])]
                              ELSE EmptyMap ]

\* extractFrontmatter: [err, fm, body].
extractFrontmatter(content) ==
    IF ~HasPrefix(content, StrDelimOpen)
    THEN [err |-> FALSE, fm |-> EmptyFrontmatter, body |-> content]
    ELSE LET endIndex == Index(SubSeq(content, 5, Len(content)), StrDelimClose)
             yamlContent == SubSeq(content, 5, endIndex + 4)
             rest == TrimSpace(SubSeq(content, endIndex + 9, Len(content)))
         IN  IF endIndex = -1
             THEN [err |-> FALSE, fm |-> EmptyFrontmatter, body |-> content]
             ELSE IF ~YamlOk(yamlContent)
             THEN [err |-> TRUE, fm |-> EmptyFrontmatter, body |-> <<>>]
             ELSE [err |-> FALSE, fm |-> YamlUnmarshal(yamlContent), body |-> rest]

\* buildMetadata: only the non-empty fields become keys.
buildMetadata(fm) ==
    LET keys == {k \in {"manufacturer", "model", "category", "version", "date"} :
                    (CASE k = "manufacturer" -> fm.Manufacturer
                       [] k = "model" -> fm.Model
                       [] k = "category" -> fm.Category
                       [] k = "version" -> fm.Version
                       [] k = "date" -> fm.Date) # <<>>}
                \cup (IF Len(fm.Tags) > 0 THEN {"tags"} ELSE {})
                \cup (IF Len(fm.Datasheets) > 0 THEN {"datasheets"} ELSE {})
                \cup (IF Len(fm.RelatedHardware) > 0 THEN {"related_hardware"} ELSE {})
                \cup (IF DOMAIN fm.Specs # {} THEN {"specs"} ELSE {})
    IN  [k \in keys |->
            CASE k = "manufacturer" -> GoString(fm.Manufacturer)
              [] k = "model" -> GoString(fm.Model)
              [] k = "category" -> GoString(fm.Category)
              [] k = "version" -> GoString(fm.Version)
              [] k = "date" -> GoString(fm.Date)
              [] k = "tags" -> GoStrings(fm.Tags)
              [] k = "datasheets" -> GoStrings(fm.Datasheets)
              [] k = "related_hardware" -> GoStrings(fm.RelatedHardware)
              [] k = "specs" -> GoStringMap(fm.Specs)]

\* bufio.Scanner with the default split function: the lines of the text
\* without their terminators; a final empty line is not delivered.
ScanLines(text) ==
    LET pieces == Split(text, "\n")
        strip(l) == IF l # <<>> /\ l[Len(l)] = "\r" THEN SubSeq(l, 1, Len(l) - 1) ELSE l
        n == IF pieces[Len(pieces)] = <<>> THEN Len(pieces) - 1 ELSE Len(pieces)
    IN  [i \in 1..n |-> strip(pieces[i])]

\* ParseMarkdownFile lines 50-78, on what extractFrontmatter returned: [err, doc].
ParseContent(fmr) ==
    IF fmr.err
    THEN [err |-> TRUE, doc |-> Nil]
    ELSE [err |-> FALSE,
          doc |-> Some(
            [ Metadata |-> buildMetadata(fmr.fm),
              Content  |-> fmr.body,
              Pinouts  |-> IF getDomainFromCategory(fmr.fm.Category) = DomainHardware
                           THEN extractPinouts(ScanLines(fmr.body)) ELSE <<>>,
              Domain   |-> getDomainFromCategory(fmr.fm.Category),
              Type     |-> getTypeFromCategory(fmr.fm.Category),
              ID       |-> generateDeviceID(fmr.fm.Category, fmr.fm.Model) ])]

\* ParseMarkdownFile on a file [readable, content]: [err, doc].
ParseMarkdownFile(file) ==
    IF ~file.readable
    THEN [err |-> TRUE, doc |-> Nil]
    ELSE ParseContent(extractFrontmatter(file.content))

StrUnknownName == <<"U", "n", "k", "n", "o", "w", "n">>

\* metadata[k].(string) succeeds
IsGoString(metadata, k) == k \in DOMAIN metadata /\ metadata[k].t = "string"

\* getDeviceName (indexer.go)
getDeviceName(metadata) ==
    IF IsGoString(metadata, "model") /\ metadata["model"].v # <<>>
    THEN metadata["model"].v
    ELSE IF IsGoString(metadata, "manufacturer") /\ IsGoString(metadata, "model")
    THEN metadata["manufacturer"].v \o <<" ">> \o metadata["model"].v
    ELSE StrUnknownName

\* The models.Device the walk callback builds from a parsed document.
BuildDevice(path, doc) ==
    [ ID       |-> doc.ID,
      Domain   |-> doc.Domain,
      Type     |-> doc.Type,
      Name     |-> getDeviceName(doc.Metadata),
      Path     |-> path,
      Metadata |-> doc.Metadata,
      Content  |-> doc.Content ]

----------------------------------------------------------------------------
(* Storage: internal/db/schema.go and internal/db/queries.go               *)
(* The schema.go in the tree is that of an earlier version of the package  *)
(* (that version's queries.go follows it): its table devices has no        *)
(* column content and it has no table guides, while the statements of      *)
(* queries.go write both. The schema those statements run on is the one    *)
(* modelled: the tables of schema.go, with the column content of the       *)
(* device record in devices, and the table guides with the columns         *)
(* InsertGuide writes. Tables specifications and cross_references are      *)
(* never written by the program and stay empty, so they carry no state.    *)

\* encoding/json: json.Marshal fails on a map whose keys are not strings.
RECURSIVE JsonOk(_)
JsonOk(x) ==
    CASE x.t = "map[interface {}]interface {}" -> FALSE
      [] x.t = "map[string]interface {}" -> \A k \in DOMAIN x.v : JsonOk(x.v[k])
      [] x.t = "[]interface {}" -> \A i \in DOMAIN x.v : JsonOk(x.v[i])
      [] OTHER -> TRUE

\* json.Marshal: the JSON document, as its tree of values.
RECURSIVE JsonMarshal(_)
JsonMarshal(x) ==
    CASE x.t = "string" -> [j |-> "string", v |-> x.v]
      [] x.t \in {"int", "float64"} -> [j |-> "number", v |-> x.v]
      [] x.t = "[]string" ->
            [j |-> "array", v |-> [i \in DOMAIN x.v |-> [j |-> "string", v |-> x.v[i]]]]
      [] x.t = "[]interface {}" ->
            [j |-> "array", v |-> [i \in DOMAIN x.v |-> JsonMarshal(x.v[i])]]
      [] x.t = "map[string]interface {}" ->
            [j |-> "object", v |-> [k \in DOMAIN x.v |-> JsonMarshal(x.v[k])]]

\* json.Unmarshal into an interface{}: strings, float64 numbers,
\* []interface{} arrays and map[string]interface{} objects.
RECURSIVE JsonUnmarshal(_)
JsonUnmarshal(doc) ==
    CASE doc.j = "string" -> GoString(doc.v)
      [] doc.j = "number" -> GoFloat64(doc.v)
      [] doc.j = "array" -> GoAnySlice([i \in DOMAIN doc.v |-> JsonUnmarshal(doc.v[i])])
      [] doc.j = "object" -> GoStringMap([k \in DOMAIN doc.v |-> JsonUnmarshal(doc.v[k])])

\* strconv.Itoa
RECURSIVE DecimalDigits(_)
DecimalDigits(n) ==
    LET digit(d) == <<"0", "1", "2", "3", "4", "5", "6", "7", "8", "9">>[d + 1]
    IN  IF n < 10 THEN <<digit(n)>>
        ELSE Append(DecimalDigits(n \div 10), digit(n % 10))

Itoa(n) == IF n < 0 THEN <<"-">> \o DecimalDigits(0 - n) ELSE DecimalDigits(n)

\* strconv.FormatFloat(f, 'g', -1, 64) of a whole number, which is how fmt
\* prints a float64: the digits up to 999999, and from 10^6 on the digits
\* without their final zeros, a point after the first, and the exponent in
\* two digits or more.
FormatFloat(n) ==
    LET ds == DecimalDigits(IF n < 0 THEN 0 - n ELSE n)
        lastDigit == MaxOf({i \in DOMAIN ds : i = 1 \/ ds[i] # "0"})
        exp == DecimalDigits(Len(ds) - 1)
    IN  (IF n < 0 THEN <<"-">> ELSE <<>>)
            \o (IF Len(ds) <= 6 THEN ds
                ELSE <<ds[1]>> \o (IF lastDigit > 1 THEN <<".">> \o SubSeq(ds, 2, lastDigit) ELSE <<>>)
                        \o <<"e", "+">> \o (IF Len(exp) < 2 THEN <<"0">> ELSE <<>>) \o exp)

\* The keys of the metadata maps, in the order of their texts: fmt prints a
\* map with its keys sorted.
SortedKeys ==
    << [key |-> "category", text |-> <<"c", "a", "t", "e", "g", "o", "r", "y">>],
       [key |-> "datasheets", text |-> <<"d", "a", "t", "a", "s", "h", "e", "e", "t", "s">>],
       [key |-> "date", text |-> <<"d", "a", "t", "e">>],
       [key |-> "k", text |-> <<"k">>],
       [key |-> "manufacturer", text |-> <<"m", "a", "n", "u", "f", "a", "c", "t", "u", "r", "e", "r">>],
       [key |-> "model", text |-> <<"m", "o", "d", "e", "l">>],
       [key |-> "related_hardware", text |-> <<"r", "e", "l", "a", "t", "e", "d", "_", "h", "a", "r", "d", "w", "a", "r", "e">>],
       [key |-> "specs", text |-> <<"s", "p", "e", "c", "s">>],
       [key |-> "tags", text |-> <<"t", "a", "g", "s">>],
       [key |-> "v", text |-> <<"v">>],
       [key |-> "version", text |-> <<"v", "e", "r", "s", "i", "o", "n">>] >>

\* fmt.Sprint of a value held as interface{}: a string as it is, an int in
\* decimal, a float64 (a whole number here) as FormatFloat gives it, a slice
\* as [e1 e2], a map as map[k1:v1 k2:v2] with its keys in order.
RECURSIVE Sprint(_)
Sprint(x) ==
    CASE x.t = "string" -> x.v
      [] x.t = "int" -> Itoa(x.v)
      [] x.t = "float64" -> FormatFloat(x.v)
      [] x.t = "[]string" -> <<"[">> \o Join(x.v, <<" ">>) \o <<"]">>
      [] x.t = "[]interface {}" ->
            <<"[">> \o Join([i \in DOMAIN x.v |-> Sprint(x.v[i])], <<" ">>) \o <<"]">>
      [] x.t = "map[string]interface {}" ->
            LET ks == SelectSeq(SortedKeys, LAMBDA e : e.key \in DOMAIN x.v)
            IN  <<"m", "a", "p", "[">>
                    \o Join([i \in DOMAIN ks |-> ks[i].text \o <<":">> \o Sprint(x.v[ks[i].key])],
                             <<" ">>)
                    \o <<"]">>
      [] x.t = "map[interface {}]interface {}" ->
            LET n == Cardinality(DOMAIN x.v)
                ks == [i \in 1..n |->
                        CHOOSE k \in DOMAIN x.v : Cardinality({j \in DOMAIN x.v : j < k}) = i - 1]
            IN  <<"m", "a", "p", "[">>
                    \o Join([i \in DOMAIN ks |-> Itoa(ks[i]) \o <<":">> \o Sprint(x.v[ks[i]])],
                             <<" ">>)
                    \o <<"]">>

\* InsertDevice lines 31-38: the tags column of the full-text row.
FlattenTags(metadata) ==
    IF "tags" \in DOMAIN metadata /\ metadata["tags"].t = "[]interface {}"
    THEN Join([i \in DOMAIN metadata["tags"].v |-> Sprint(metadata["tags"].v[i])], <<" ">>)
    ELSE <<>>

\* The map f with key k set to v, whether or not k is a key of f.
Put(f, k, v) == [x \in DOMAIN f \cup {k} |-> IF x = k THEN v ELSE f[x]]

\* The map f without the keys outside keep.
Restrict(f, keep) == [x \in keep |-> f[x]]

\* The database with the current tables.
DB == [devices |-> devices, search_fts |-> search_fts,
       pinoutRows |-> pinoutRows, guides |-> guides]

\* INSERT OR IGNORE INTO devices: a row with the same primary key is kept.
KeepDeviceRow(db, device) ==
    IF device.ID \in DOMAIN db.devices THEN db
    ELSE [db EXCEPT
            !.devices = Put(@, device.ID,
                            [ domain   |-> device.Domain,
                              type     |-> device.Type,
                              name     |-> device.Name,
                              path     |-> device.Path,
                              content  |-> device.Content,
                              metadata |-> JsonMarshal(GoStringMap(device.Metadata)) ])]

\* INSERT OR REPLACE INTO devices with the pinouts of the replaced row left
\* in place, as they are when foreign keys are not enforced.
ReplaceDeviceRowNoCascade(db, device) ==
    [db EXCEPT
        !.devices = Put(@, device.ID,
                        [ domain   |-> device.Domain,
                          type     |-> device.Type,
                          name     |-> device.Name,
                          path     |-> device.Path,
                          content  |-> device.Content,
                          metadata |-> JsonMarshal(GoStringMap(device.Metadata)) ])]

\* INSERT OR REPLACE INTO devices: a row with the same primary key is deleted
\* first, and with foreign keys on (InitDatabase) that delete cascades to the
\* pinouts of the id.
ReplaceDeviceRow(db, device) ==
    [db EXCEPT
        !.devices = Put(@, device.ID,
                        [ domain   |-> device.Domain,
                          type     |-> device.Type,
                          name     |-> device.Name,
                          path     |-> device.Path,
                          content  |-> device.Content,
                          metadata |-> JsonMarshal(GoStringMap(device.Metadata)) ]),
        !.pinoutRows = IF device.ID \in DOMAIN db.devices
                       THEN Restrict(@, {key \in DOMAIN @ : key[1] # device.ID})
                       ELSE @]

\* InsertDevice without its second statement: nothing is put into search_fts.
InsertFtsRowSkipped(db, device) == db

\* INSERT OR REPLACE INTO search_fts: the fts5 table has no key but its
\* rowid, which the statement does not give, so the row is always added.
InsertFtsRow(db, device) ==
    [db EXCEPT
        !.search_fts = Append(@, [ device_id |-> device.ID,
                                   name      |-> device.Name,
                                   content   |-> device.Content,
                                   tags      |-> FlattenTags(device.Metadata) ])]

\* InsertDevice: [db, err]. fail names the statement the storage rejects:
\* "devices", "fts" or "none".
InsertDevice(db, device, fail) ==
    IF ~JsonOk(GoStringMap(device.Metadata)) THEN [db |-> db, err |-> TRUE]
    ELSE IF fail = "devices" THEN [db |-> db, err |-> TRUE]
    ELSE IF fail = "fts" THEN [db |-> ReplaceDeviceRow(db, device), err |-> TRUE]
    ELSE [db |-> InsertFtsRow(ReplaceDeviceRow(db, device), device), err |-> FALSE]

\* InsertPinouts: [db, err]. failAt = 0: no statement fails; failAt = k: the
\* k-th row's statement fails (for k = 1 also: Prepare fails). A row whose
\* device_id is not in devices violates the foreign key.
RECURSIVE InsertPinoutsKeepFirst(_, _, _, _, _)
InsertPinoutsKeepFirst(db, devID, pins, failAt, k) ==
    IF k > Len(pins) THEN [db |-> db, err |-> FALSE]
    ELSE IF failAt = k \/ devID \notin DOMAIN db.devices THEN [db |-> db, err |-> TRUE]
    ELSE InsertPinoutsKeepFirst(
            IF <<devID, pins[k].PhysicalPin>> \in DOMAIN db.pinoutRows THEN db
            ELSE [db EXCEPT !.pinoutRows =
                    Put(@, <<devID, pins[k].PhysicalPin>>,
                        [ gpio_num      |-> pins[k].GPIO,
                          name          |-> pins[k].Name,
                          default_pull  |-> pins[k].DefaultPull,
                          alt_functions |-> IF Len(pins[k].AltFunctions) > 0
                                            THEN Some(JsonMarshal(GoStrings(pins[k].AltFunctions)))
                                            ELSE Nil,
                          description   |-> pins[k].Description ])],
            devID, pins, failAt, k + 1)

RECURSIVE InsertPinoutsFrom(_, _, _, _, _)
InsertPinoutsFrom(db, devID, pins, failAt, k) ==
    IF k > Len(pins) THEN [db |-> db, err |-> FALSE]
    ELSE IF failAt = k \/ devID \notin DOMAIN db.devices THEN [db |-> db, err |-> TRUE]
    ELSE InsertPinoutsFrom(
            [db EXCEPT !.pinoutRows =
                Put(@, <<devID, pins[k].PhysicalPin>>,
                    [ gpio_num      |-> pins[k].GPIO,
                      name          |-> pins[k].Name,
                      default_pull  |-> pins[k].DefaultPull,
                      alt_functions |-> IF Len(pins[k].AltFunctions) > 0
                                        THEN Some(JsonMarshal(GoStrings(pins[k].AltFunctions)))
                                        ELSE Nil,
                      description   |-> pins[k].Description ])],
            devID, pins, failAt, k + 1)

InsertPinouts(db, devID, pins, failAt) ==
    IF failAt = 1 THEN [db |-> db, err |-> TRUE]
    ELSE InsertPinoutsFrom(db, devID, pins, failAt, 1)

\* ClearDatabase without its first statement: search_fts is left as it is.
ClearDatabaseKeepingFts(db, failAt) ==
    [db |-> [db EXCEPT
                !.pinoutRows = IF failAt = 0 \/ 4 < failAt THEN EmptyMap ELSE @,
                !.devices = IF failAt = 0 THEN EmptyMap ELSE @],
     err |-> failAt # 0]

\* The number of DELETE statements of ClearDatabase.
NumClearStatements == 5

\* ClearDatabase: [db, err]. failAt = 0: all five statements run; failAt = k:
\* the k-th fails after the ones before it ran. In order: search_fts,
\* cross_references, specifications, pinouts, devices.
ClearDatabase(db, failAt) ==
    LET runs(k) == failAt = 0 \/ k < failAt
    IN  [db |-> [db EXCEPT
                    !.search_fts = IF runs(1) THEN <<>> ELSE @,
                    !.pinoutRows = IF runs(4) THEN EmptyMap ELSE @,
                    !.devices = IF runs(5) THEN EmptyMap ELSE @],
         err |-> failAt # 0]

\* The k-th statement of ClearDatabase, run on its own: DELETE FROM
\* search_fts, cross_references, specifications, pinouts, devices. Deleting
\* the devices deletes, by ON DELETE CASCADE, the pinouts that are left.
ClearStatement(db, k) ==
    CASE k = 1 -> [db EXCEPT !.search_fts = <<>>]
      [] k = 4 -> [db EXCEPT !.pinoutRows = EmptyMap]
      [] k = 5 -> [db EXCEPT !.devices = EmptyMap, !.pinoutRows = EmptyMap]
      [] OTHER -> db

\* InsertGuide: [db, err]. INSERT OR REPLACE INTO guides; fail says that
\* the storage rejects the statement.
InsertGuide(db, id, title, content, fail) ==
    IF fail THEN [db |-> db, err |-> TRUE]
    ELSE [db |-> [db EXCEPT !.guides = Put(@, id, [title |-> title, content |-> content])],
          err |-> FALSE]

\* GetDevice: [device, err]; the device is Nil when no row has the id.
GetDevice(db, id) ==
    IF id \notin DOMAIN db.devices THEN [device |-> Nil, err |-> FALSE]
    ELSE LET row == db.devices[id]
         IN  [device |-> Some([ ID       |-> id,
                                Domain   |-> row.domain,
                                Type     |-> row.type,
                                Name     |-> row.name,
                                Path     |-> row.path,
                                Content  |-> row.content,
                                Metadata |-> JsonUnmarshal(row.metadata).v ]),
              err |-> FALSE]

----------------------------------------------------------------------------
(* Search query builder: internal/db/queries.go                            *)

DQ == "\""

\* The quotes put around x with the quotes inside x left as they are.
QuoteNotEscaped(x) == <<DQ>> \o x \o <<DQ>>

\* `"` + strings.ReplaceAll(x, `"`, `""`) + `"`
QuoteEscaped(x) == <<DQ>> \o ReplaceAll(x, DQ, <<DQ, DQ>>) \o <<DQ>>

\* strings.Contains(query, "-") && len(strings.FieldsFunc(query, r == '-')) > 1
hasModelHyphens(q) == Contains(q, <<"-">>) /\ Len(FieldsFunc(q, {"-"})) > 1

\* The loop quoting every word, hyphenated or not.
QuoteEveryWord(words) == [i \in 1..Len(words) |-> QuoteEscaped(words[i])]

\* the loop over strings.Fields(query) that quotes each word holding a hyphen
QuoteWords(words) ==
    [i \in 1..Len(words) |->
        IF Contains(words[i], <<"-">>) THEN QuoteEscaped(words[i]) ELSE words[i]]

buildFTSQuery(raw) ==
    LET q == TrimSpace(raw)
    IN  IF q = <<>> THEN <<>>
        ELSE IF hasModelHyphens(q) THEN QuoteEscaped(q)
        ELSE Join(QuoteWords(Fields(q)), <<" ">>)

----------------------------------------------------------------------------
(* Search: SearchDevices (internal/db/queries.go) and the options          *)
(* handleSearch builds for it (internal/mcp/tools.go).                     *)
(* The FTS5 engine is outside the repository; search_fts is declared with  *)
(* tokenize='porter unicode61'. Its MATCH is modelled for texts of ASCII   *)
(* characters and for the expressions whose characters outside quoted      *)
(* strings are letters, digits, underscores and white space: bare words,   *)
(* quoted strings and the operator words AND, OR and NOT. Any other        *)
(* character outside a quoted string is taken as a syntax error, so the    *)
(* column filters, NEAR groups, prefix and initial-token marks and the     *)
(* parentheses of the FTS5 syntax are outside what is modelled. The rank   *)
(* of a matching row is the engine's choice.                               *)

AlnumChars == {UpperLetters[i] : i \in 1..26} \cup LowerAlnum

\* F applied to the value of v, the steps of a computation being done one
\* after the other, each on the result of the one before.
Then(F(_), v) == CHOOSE r \in {F(x) : x \in {v}} : TRUE

\* unicode61: the text split at every character that is no letter and no
\* digit, the case folded.
Unicode61(text) ==
    FieldsFunc(ToLower(text), {text[i] : i \in DOMAIN text} \ AlnumChars)

\* s without its last n characters.
DropLast(s, n) == SubSeq(s, 1, Len(s) - n)

\* The character n places before the end of s (0: the last).
FromEnd(s, n) == s[Len(s) - n]

\* fts5PorterIsVowel: y counts as a vowel when bYIsVowel.
fts5PorterIsVowel(c, bYIsVowel) ==
    c \in {"a", "e", "i", "o", "u"} \/ (bYIsVowel /\ c = "y")

\* The value of bCons after each character of zStem, a character being a
\* vowel or not given the value before it.
RECURSIVE ConsonantFlags(_, _)
ConsonantFlags(zStem, bPrevCons) ==
    IF zStem = <<>> THEN <<>>
    ELSE <<~fts5PorterIsVowel(zStem[1], bPrevCons)>>
            \o ConsonantFlags(Tail(zStem), ~fts5PorterIsVowel(zStem[1], bPrevCons))

\* fts5PorterGobbleVC: the number of characters up to and with the first
\* consonant after the first vowel; 0 when there is none.
fts5PorterGobbleVC(zStem, bPrevCons) ==
    LET first(flags) ==
            LET after == {j \in DOMAIN flags : flags[j] /\ \E i \in 1..(j - 1) : ~flags[i]}
            IN  IF after = {} THEN 0 ELSE MinOf(after)
    IN  Then(first, ConsonantFlags(zStem, bPrevCons))

\* porter rule condition (m > 0)
fts5Porter_MGt0(zStem) == fts5PorterGobbleVC(zStem, FALSE) # 0

\* porter rule condition (m > 1)
fts5Porter_MGt1(zStem) ==
    Then(LAMBDA n : n # 0 /\ fts5PorterGobbleVC(SubSeq(zStem, n + 1, Len(zStem)), TRUE) # 0,
         fts5PorterGobbleVC(zStem, FALSE))

\* porter rule condition (m = 1)
fts5Porter_MEq1(zStem) ==
    Then(LAMBDA n : n # 0 /\ fts5PorterGobbleVC(SubSeq(zStem, n + 1, Len(zStem)), TRUE) = 0,
         fts5PorterGobbleVC(zStem, FALSE))

\* porter rule condition (*o): consonant, vowel, consonant at the end, the
\* last no w, x or y.
fts5Porter_Ostar(zStem) ==
    /\ Len(zStem) >= 3
    /\ FromEnd(zStem, 0) \notin {"w", "x", "y"}
    /\ Then(LAMBDA flags : FromEnd(flags, 2) /\ ~FromEnd(flags, 1) /\ FromEnd(flags, 0),
            ConsonantFlags(zStem, FALSE))

\* porter rule condition (*v*): y is a vowel anywhere but at the start.
fts5Porter_Vowel(zStem) ==
    \E i \in DOMAIN zStem : fts5PorterIsVowel(zStem[i], i > 1)

fts5PorterStep1A(aBuf) ==
    LET nBuf == Len(aBuf)
    IN  IF FromEnd(aBuf, 0) = "s"
        THEN IF FromEnd(aBuf, 1) = "e"
             THEN IF \/ (nBuf > 4 /\ FromEnd(aBuf, 3) = "s" /\ FromEnd(aBuf, 2) = "s")
                     \/ (nBuf > 3 /\ FromEnd(aBuf, 2) = "i")
                  THEN DropLast(aBuf, 2)
                  ELSE DropLast(aBuf, 1)
             ELSE IF FromEnd(aBuf, 1) # "s"
             THEN DropLast(aBuf, 1)
             ELSE aBuf
        ELSE aBuf

\* fts5PorterStep1B: [buf, ret]; ret says that -ed or -ing was removed.
fts5PorterStep1B(aBuf) ==
    LET nBuf == Len(aBuf)
    IN  IF nBuf > 3 /\ HasSuffix(aBuf, <<"e", "e", "d">>)
        THEN [buf |-> IF fts5Porter_MGt0(DropLast(aBuf, 3)) THEN DropLast(aBuf, 1) ELSE aBuf,
              ret |-> FALSE]
        ELSE IF nBuf > 2 /\ HasSuffix(aBuf, <<"e", "d">>)
        THEN IF fts5Porter_Vowel(DropLast(aBuf, 2))
             THEN [buf |-> DropLast(aBuf, 2), ret |-> TRUE]
             ELSE [buf |-> aBuf, ret |-> FALSE]
        ELSE IF nBuf > 3 /\ HasSuffix(aBuf, <<"i", "n", "g">>)
        THEN IF fts5Porter_Vowel(DropLast(aBuf, 3))
             THEN [buf |-> DropLast(aBuf, 3), ret |-> TRUE]
             ELSE [buf |-> aBuf, ret |-> FALSE]
        ELSE [buf |-> aBuf, ret |-> FALSE]

\* fts5PorterStep1B2 and the lines of fts5PorterCb that follow it: what is
\* done to the stem after -ed or -ing was removed.
fts5PorterStep1B2(aBuf) ==
    LET nBuf == Len(aBuf)
        c == FromEnd(aBuf, 0)
    IN  IF nBuf > 2 /\ \E s \in {<<"a", "t">>, <<"b", "l">>, <<"i", "z">>} : HasSuffix(aBuf, s)
        THEN Append(aBuf, "e")
        ELSE IF /\ ~fts5PorterIsVowel(c, FALSE)
                /\ c \notin {"l", "s", "z"}
                /\ nBuf > 1
                /\ c = FromEnd(aBuf, 1)
        THEN DropLast(aBuf, 1)
        ELSE IF fts5Porter_MEq1(aBuf) /\ fts5Porter_Ostar(aBuf)
        THEN Append(aBuf, "e")
        ELSE aBuf

\* The suffixes of fts5PorterStep2 with what replaces each when m > 0.
PorterStep2Rules ==
    << [suffix |-> <<"a", "t", "i", "o", "n", "a", "l">>, repl |-> <<"a", "t", "e">>],
       [suffix |-> <<"t", "i", "o", "n", "a", "l">>, repl |-> <<"t", "i", "o", "n">>],
       [suffix |-> <<"e", "n", "c", "i">>, repl |-> <<"e", "n", "c", "e">>],
       [suffix |-> <<"a", "n", "c", "i">>, repl |-> <<"a", "n", "c", "e">>],
       [suffix |-> <<"i", "z", "e", "r">>, repl |-> <<"i", "z", "e">>],
       [suffix |-> <<"l", "o", "g", "i">>, repl |-> <<"l", "o", "g">>],
       [suffix |-> <<"b", "l", "i">>, repl |-> <<"b", "l", "e">>],
       [suffix |-> <<"a", "l", "l", "i">>, repl |-> <<"a", "l">>],
       [suffix |-> <<"e", "n", "t", "l", "i">>, repl |-> <<"e", "n", "t">>],
       [suffix |-> <<"e", "l", "i">>, repl |-> <<"e">>],
       [suffix |-> <<"o", "u", "s", "l", "i">>, repl |-> <<"o", "u", "s">>],
       [suffix |-> <<"i", "z", "a", "t", "i", "o", "n">>, repl |-> <<"i", "z", "e">>],
       [suffix |-> <<"a", "t", "i", "o", "n">>, repl |-> <<"a", "t", "e">>],
       [suffix |-> <<"a", "t", "o", "r">>, repl |-> <<"a", "t", "e">>],
       [suffix |-> <<"a", "l", "i", "s", "m">>, repl |-> <<"a", "l">>],
       [suffix |-> <<"i", "v", "e", "n", "e", "s", "s">>, repl |-> <<"i", "v", "e">>],
       [suffix |-> <<"f", "u", "l", "n", "e", "s", "s">>, repl |-> <<"f", "u", "l">>],
       [suffix |-> <<"o", "u", "s", "n", "e", "s", "s">>, repl |-> <<"o", "u", "s">>],
       [suffix |-> <<"a", "l", "i", "t", "i">>, repl |-> <<"a", "l">>],
       [suffix |-> <<"i", "v", "i", "t", "i">>, repl |-> <<"i", "v", "e">>],
       [suffix |-> <<"b", "i", "l", "i", "t", "i">>, repl |-> <<"b", "l", "e">>] >>

\* The suffixes of fts5PorterStep3 with what replaces each when m > 0.
PorterStep3Rules ==
    << [suffix |-> <<"i", "c", "a", "l">>, repl |-> <<"i", "c">>],
       [suffix |-> <<"n", "e", "s", "s">>, repl |-> <<>>],
       [suffix |-> <<"i", "c", "a", "t", "e">>, repl |-> <<"i", "c">>],
       [suffix |-> <<"i", "c", "i", "t", "i">>, repl |-> <<"i", "c">>],
       [suffix |-> <<"f", "u", "l">>, repl |-> <<>>],
       [suffix |-> <<"a", "t", "i", "v", "e">>, repl |-> <<>>],
       [suffix |-> <<"a", "l", "i", "z", "e">>, repl |-> <<"a", "l">>] >>

\* The suffixes fts5PorterStep4 removes when m > 1; -ion only after s or t.
PorterStep4Rules ==
    << [suffix |-> <<"a", "l">>, onlyAfterST |-> FALSE],
       [suffix |-> <<"a", "n", "c", "e">>, onlyAfterST |-> FALSE],
       [suffix |-> <<"e", "n", "c", "e">>, onlyAfterST |-> FALSE],
       [suffix |-> <<"e", "r">>, onlyAfterST |-> FALSE],
       [suffix |-> <<"i", "c">>, onlyAfterST |-> FALSE],
       [suffix |-> <<"a", "b", "l", "e">>, onlyAfterST |-> FALSE],
       [suffix |-> <<"i", "b", "l", "e">>, onlyAfterST |-> FALSE],
       [suffix |-> <<"a", "n", "t">>, onlyAfterST |-> FALSE],
       [suffix |-> <<"e", "m", "e", "n", "t">>, onlyAfterST |-> FALSE],
       [suffix |-> <<"m", "e", "n", "t">>, onlyAfterST |-> FALSE],
       [suffix |-> <<"e", "n", "t">>, onlyAfterST |-> FALSE],
       [suffix |-> <<"i", "o", "n">>, onlyAfterST |-> TRUE],
       [suffix |-> <<"o", "u">>, onlyAfterST |-> FALSE],
       [suffix |-> <<"i", "s", "m">>, onlyAfterST |-> FALSE],
       [suffix |-> <<"a", "t", "e">>, onlyAfterST |-> FALSE],
       [suffix |-> <<"i", "t", "i">>, onlyAfterST |-> FALSE],
       [suffix |-> <<"o", "u", "s">>, onlyAfterST |-> FALSE],
       [suffix |-> <<"i", "v", "e">>, onlyAfterST |-> FALSE],
       [suffix |-> <<"i", "z", "e">>, onlyAfterST |-> FALSE] >>

\* The first rule whose suffix ends aBuf with something before it; 0 when
\* there is none. The rules with one letter before the last are tried in
\* their order, and the first that fits is the only one applied.
PorterRule(aBuf, rules) ==
    LET fits == {i \in DOMAIN rules :
                    Len(aBuf) > Len(rules[i].suffix) /\ HasSuffix(aBuf, rules[i].suffix)}
    IN  IF fits = {} THEN 0 ELSE MinOf(fits)

\* fts5PorterStep2 and fts5PorterStep3
fts5PorterReplace(aBuf, rules) ==
    Then(LAMBDA r : IF r # 0 /\ fts5Porter_MGt0(DropLast(aBuf, Len(rules[r].suffix)))
                    THEN DropLast(aBuf, Len(rules[r].suffix)) \o rules[r].repl
                    ELSE aBuf,
         PorterRule(aBuf, rules))

fts5PorterStep4(aBuf) ==
    Then(LAMBDA rule :
            IF /\ rule # Nil
               /\ fts5Porter_MGt1(DropLast(aBuf, Len(rule[1].suffix)))
               /\ rule[1].onlyAfterST => FromEnd(DropLast(aBuf, Len(rule[1].suffix)), 0) \in {"s", "t"}
            THEN DropLast(aBuf, Len(rule[1].suffix))
            ELSE aBuf,
         Then(LAMBDA r : IF r = 0 THEN Nil ELSE Some(PorterStep4Rules[r]),
              PorterRule(aBuf, PorterStep4Rules)))

\* Steps 1C, 5a and 5b of fts5PorterCb.
fts5PorterStep1C(aBuf) ==
    IF FromEnd(aBuf, 0) = "y" /\ fts5Porter_Vowel(DropLast(aBuf, 1))
    THEN Append(DropLast(aBuf, 1), "i")
    ELSE aBuf

fts5PorterStep5(aBuf) ==
    Then(LAMBDA a : IF /\ Len(a) > 1 /\ FromEnd(a, 0) = "l" /\ FromEnd(a, 1) = "l"
                       /\ fts5Porter_MGt1(DropLast(a, 1))
                    THEN DropLast(a, 1)
                    ELSE a,
         IF /\ FromEnd(aBuf, 0) = "e"
            /\ \/ fts5Porter_MGt1(DropLast(aBuf, 1))
               \/ (fts5Porter_MEq1(DropLast(aBuf, 1)) /\ ~fts5Porter_Ostar(DropLast(aBuf, 1)))
         THEN DropLast(aBuf, 1)
         ELSE aBuf)

\* fts5PorterCb: the stem of a token; tokens of fewer than 3 or more than
\* 64 characters pass through.
fts5PorterCb(pToken) ==
    IF Len(pToken) < 3 \/ Len(pToken) > 64 THEN pToken
    ELSE Then(fts5PorterStep5,
         Then(fts5PorterStep4,
         Then(LAMBDA aBuf : fts5PorterReplace(aBuf, PorterStep3Rules),
         Then(LAMBDA aBuf : fts5PorterReplace(aBuf, PorterStep2Rules),
         Then(fts5PorterStep1C,
         Then(LAMBDA b : IF b.ret THEN fts5PorterStep1B2(b.buf) ELSE b.buf,
         Then(fts5PorterStep1B,
         Then(fts5PorterStep1A, pToken))))))))

\* The tokens of a text: those of unicode61, each stemmed.
Tokenize(text) ==
    Then(LAMBDA tokens : [i \in DOMAIN tokens |-> fts5PorterCb(tokens[i])], Unicode61(text))

\* The characters FTS5 skips between the tokens of an expression, and those
\* of its bare words.
FtsSpace == {" ", "\t", "\n", "\r"}
FtsBareChars == AlnumChars \cup {"_"}

FtsOperatorWords == {<<"A", "N", "D">>, <<"O", "R">>, <<"N", "O", "T">>}

\* The quoted string whose opening quote is before position i of e:
\* [ok, s, next], a doubled quote standing for one; not ok when the
\* string is not closed.
RECURSIVE FtsQuoted(_, _, _)
FtsQuoted(e, i, cur) ==
    IF i > Len(e) THEN [ok |-> FALSE, s |-> cur, next |-> i]
    ELSE IF e[i] = DQ /\ i < Len(e) /\ e[i + 1] = DQ THEN FtsQuoted(e, i + 2, Append(cur, DQ))
    ELSE IF e[i] = DQ THEN [ok |-> TRUE, s |-> cur, next |-> i + 1]
    ELSE FtsQuoted(e, i + 1, Append(cur, e[i]))

\* The end of the bare word that starts at position i of e.
RECURSIVE FtsBareEnd(_, _)
FtsBareEnd(e, i) ==
    IF i < Len(e) /\ e[i + 1] \in FtsBareChars THEN FtsBareEnd(e, i + 1) ELSE i

\* The tokens of an FTS5 expression from position i on: strings (bare
\* words and quoted strings) and operators; the token ERROR ends the list
\* where the expression cannot be read.
RECURSIVE FtsTermsFrom(_, _)
FtsTermsFrom(e, i) ==
    IF i > Len(e) THEN <<>>
    ELSE IF e[i] \in FtsSpace THEN FtsTermsFrom(e, i + 1)
    ELSE IF e[i] = DQ
    THEN LET q == FtsQuoted(e, i + 1, <<>>)
         IN  IF q.ok THEN <<[k |-> "STRING", s |-> q.s]>> \o FtsTermsFrom(e, q.next)
             ELSE <<[k |-> "ERROR", s |-> <<>>]>>
    ELSE IF e[i] \in FtsBareChars
    THEN LET w == SubSeq(e, i, FtsBareEnd(e, i))
         IN  <<[k |-> IF w \in FtsOperatorWords THEN "OPERATOR" ELSE "STRING", s |-> w]>>
                \o FtsTermsFrom(e, FtsBareEnd(e, i) + 1)
    ELSE <<[k |-> "ERROR", s |-> <<>>]>>

FtsTerms(e) == FtsTermsFrom(e, 1)

\* The tokens cut at every operator op into the lists between them.
RECURSIVE FtsSplitAt(_, _, _)
FtsSplitAt(toks, op, cur) ==
    IF toks = <<>> THEN <<cur>>
    ELSE IF toks[1].k = "OPERATOR" /\ toks[1].s = op
    THEN <<cur>> \o FtsSplitAt(Tail(toks), op, <<>>)
    ELSE FtsSplitAt(Tail(toks), op, Append(cur, toks[1]))

\* The expression as FTS5 parses it. NOT binds tighter than AND, AND
\* tighter than OR, and strings that follow each other are one list: the
\* tree is a list (OR) of lists (AND) of lists (NOT, the first but not the
\* others) of lists of strings.
FtsParse(e) ==
    LET nots(toks) == FtsSplitAt(toks, <<"N", "O", "T">>, <<>>)
        ands(toks) == LET l == FtsSplitAt(toks, <<"A", "N", "D">>, <<>>)
                      IN  [a \in DOMAIN l |-> Then(nots, l[a])]
        ors(toks) == LET l == FtsSplitAt(toks, <<"O", "R">>, <<>>)
                     IN  [o \in DOMAIN l |-> Then(ands, l[o])]
    IN  Then(ors, Then(FtsTerms, e))

\* FTS5 takes the expression: it can be read, and every operator stands
\* between two lists of one string or more.
FtsSyntaxOk(e) ==
    /\ \E toks \in {FtsTerms(e)} : \A t \in DOMAIN toks : toks[t].k # "ERROR"
    /\ \E tree \in {FtsParse(e)} :
        \A o \in DOMAIN tree : \A a \in DOMAIN tree[o] :
            \A n \in DOMAIN tree[o][a] : tree[o][a][n] # <<>>

\* A list of strings on the tokens of the columns of a row: every string
\* that has a token occurs in a column as consecutive tokens. Strings
\* without a token are left out of a list; a list of such strings only
\* matches no row.
FtsListMatches(cols, strings) ==
    \E phrases \in {[i \in DOMAIN strings |-> Tokenize(strings[i].s)]} :
        /\ \E i \in DOMAIN phrases : phrases[i] # <<>>
        /\ \A i \in DOMAIN phrases :
            \/ phrases[i] = <<>>
            \/ \E c \in DOMAIN cols : Contains(cols[c], phrases[i])

\* search_fts MATCH ? on the columns name, content and tags of one row,
\* for an expression FTS5 takes.
FtsMatch(name, content, tags, e) ==
    \E cols \in {[c \in 1..3 |-> Tokenize(<<name, content, tags>>[c])]} :
    \E tree \in {FtsParse(e)} :
        \E o \in DOMAIN tree : \A a \in DOMAIN tree[o] : \A n \in DOMAIN tree[o][a] :
            FtsListMatches(cols, tree[o][a][n]) <=> n = 1

\* handleSearch: the limit when the request gives none or one that is not positive.
DefaultLimit == 10

\* handleSearch lines 107-125: the SearchOptions built from the arguments of
\* the request; Domain, Type and Limit may be absent (Nil).
handleSearchOptions(args) ==
    [ Query  |-> args.Query,
      Limit  |-> IF args.Limit # Nil /\ args.Limit[1] > 0 THEN args.Limit[1] ELSE DefaultLimit,
      Offset |-> 0,
      Domain |-> IF args.Domain # Nil /\ args.Domain[1] # "" /\ args.Domain[1] # "all"
                 THEN args.Domain ELSE Nil,
      Type   |-> args.Type ]

\* Bound on the length of the queries explored.
MaxQueryLen == 5

\* The characters queries are built from: a word character, the hyphen, two
\* kinds of white space and the double quote.
QueryAlphabet == {"a", "-", " ", "\t", DQ}

RECURSIVE SeqsUpTo(_, _)
SeqsUpTo(A, n) ==
    IF n = 0 THEN {<<>>}
    ELSE LET shorter == SeqsUpTo(A, n - 1)
         IN  shorter \cup {Append(s, c) : s \in {t \in shorter : Len(t) = n - 1}, c \in A}

Queries == SeqsUpTo(QueryAlphabet, MaxQueryLen)

----------------------------------------------------------------------------
(* Inputs and actions.                                                     *)

\* SearchDevices line 94: ftsQuery := buildFTSQuery(opts.Query)
BuildQuery ==
    /\ qpc = "input"
    /\ ftsQuery' = buildFTSQuery(query)
    /\ qpc' = "done"
    /\ UNCHANGED <<query, found>>
    /\ UNCHANGED <<varsC, varsP, varsDB, varsH, varsI, varsX>>

\* ParseMarkdownFile lines 59-60: domain and type from the category.
Classify ==
    /\ cpc = "input"
    /\ domain' = getDomainFromCategory(category)
    /\ devType' = getTypeFromCategory(category)
    /\ cpc' = "done"
    /\ UNCHANGED <<category, model, deviceID>>
    /\ UNCHANGED <<varsQ, varsP, varsDB, varsH, varsI, varsX>>

\* ParseMarkdownFile line 63: id from category and model.
GenerateID ==
    /\ cpc = "input"
    /\ deviceID' = generateDeviceID(category, model)
    /\ cpc' = "done"
    /\ UNCHANGED <<category, model, domain, devType>>
    /\ UNCHANGED <<varsQ, varsP, varsDB, varsH, varsI, varsX>>

\* extractPinouts lines 152-195: scanner.Scan delivers the next line and the
\* loop body runs on it.
ScanLine ==
    /\ pos < Len(body)
    /\ LET st == ScanStep(body[pos + 1],
                          [inTable |-> inTable, headerFound |-> headerFound,
                           pinouts |-> pinouts])
       IN  /\ inTable' = st.inTable
           /\ headerFound' = st.headerFound
           /\ pinouts' = st.pinouts
    /\ pos' = pos + 1
    /\ UNCHANGED body
    /\ UNCHANGED <<varsQ, varsC, varsDB, varsH, varsI, varsX>>

\* Category heads: the recognized top-level words in several spellings, a
\* word that is one letter short, an unrecognized word, and none.
CategoryHeads ==
    { <<>>,
      <<"s", "e", "n", "s", "o", "r", "s">>,
      <<"s", "o", "f", "t", "w", "a", "r", "e">>,
      <<"S", "o", "f", "t", "w", "a", "r", "e">>,
      <<"s", "o", "f", "t", "w", "a", "r">>,
      <<"l", "i", "b", "r", "a", "r", "i", "e", "s">>,
      <<"F", "R", "A", "M", "E", "W", "O", "R", "K", "S">>,
      <<"a", "p", "p", "l", "i", "c", "a", "t", "i", "o", "n", "s">>,
      <<"P", "r", "o", "t", "o", "c", "o", "l", "s">>,
      <<"p", "r", "o", "t", "o", "c", "o", "l">> }

\* Bound on the length of the tail appended to a category head.
MaxTailLen == 2

CategoryTails == SeqsUpTo({"/", "a", "s"}, MaxTailLen)

Categories == {h \o t : h \in CategoryHeads, t \in CategoryTails}

StrSensorsTemperature ==
    <<"s", "e", "n", "s", "o", "r", "s", "/", "t", "e", "m", "p", "e", "r", "a", "t", "u", "r", "e">>
StrDS18B20 == <<"D", "S", "1", "8", "B", "2", "0">>

\* Bounds on the lengths of the categories and models the id is generated from.
MaxIdCatLen == 3
MaxIdModelLen == 2

IdCategories == SeqsUpTo({"a", "B", "/", "-", " "}, MaxIdCatLen) \cup {StrSensorsTemperature}
IdModels == SeqsUpTo({"a", "B", "-", "."}, MaxIdModelLen) \cup {StrDS18B20}

\* The documentation files of the model: path and content.
\* FileHw1: model DS, category a/b, a table of two rows.
FileHw1 ==
    [ path |-> <<"a", ".", "m", "d">>,
      kind |-> "file", readable |-> TRUE,
      content |->
        <<"-", "-", "-", "\n", "m", "\n", "h", "\n", "-", "-", "-", "\n",
          "|", " ", "P", "i", "n", " ", "|", " ", "G", " ", "|", " ", "N",
          " ", "|", "\n", "|", "-", "-", "-", "|", "-", "-", "-", "|", "-",
          "-", "-", "|", "\n", "|", " ", "1", " ", "|", " ", "2", " ", "|",
          " ", "A", " ", "|", "\n", "|", " ", "2", " ", "|", " ", "3", " ",
          "|", " ", "B", " ", "|">> ]

\* FileHw2: the same model and category with tags and another body.
FileHw2 ==
    [ path |-> <<"b", ".", "m", "d">>,
      kind |-> "file", readable |-> TRUE,
      content |->
        <<"-", "-", "-", "\n", "m", "\n", "h", "\n", "t", "\n", "-", "-",
          "-", "\n", "x">> ]

\* FileHw3: category a/b without a model, a table of one row.
FileHw3 ==
    [ path |-> <<"c", ".", "m", "d">>,
      kind |-> "file", readable |-> TRUE,
      content |->
        <<"-", "-", "-", "\n", "h", "\n", "-", "-", "-", "\n", "|", " ",
          "P", "i", "n", " ", "|", " ", "G", " ", "|", " ", "N", " ", "|",
          "\n", "|", "-", "-", "-", "|", "-", "-", "-", "|", "-", "-", "-",
          "|", "\n", "|", " ", "1", " ", "|", " ", "4", " ", "|", " ", "C",
          " ", "|">> ]

\* FileSw: a software category, with numeric specs.
FileSw ==
    [ path |-> <<"d", ".", "m", "d">>,
      kind |-> "file", readable |-> TRUE,
      content |->
        <<"-", "-", "-", "\n", "m", "\n", "s", "\n", "p", "\n", "-", "-",
          "-", "\n", "y">> ]

\* FilePlain: no frontmatter.
FilePlain ==
    [ path |-> <<"R", "E", "A", "D", "M", "E", ".", "m", "d">>,
      kind |-> "file", readable |-> TRUE,
      content |->
        <<"x">> ]

\* FileUnterminated: an opening delimiter that is never closed.
FileUnterminated ==
    [ path |-> <<"f", ".", "M", "D">>,
      kind |-> "file", readable |-> TRUE,
      content |->
        <<"-", "-", "-", "\n", "m", "\n", "h">> ]

\* FileBadYaml: a delimited block that is not YAML.
FileBadYaml ==
    [ path |-> <<"g", ".", "m", "d">>,
      kind |-> "file", readable |-> TRUE,
      content |->
        <<"-", "-", "-", "\n", "!", "\n", "-", "-", "-", "\n", "x">> ]

\* FileNestedKey: specs with a nested mapping whose key is a number.
FileNestedKey ==
    [ path |-> <<"h", ".", "m", "d">>,
      kind |-> "file", readable |-> TRUE,
      content |->
        <<"-", "-", "-", "\n", "m", "\n", "q", "\n", "-", "-", "-", "\n",
          "z">> ]

\* A file the process may not read.
FileUnreadable ==
    [path |-> <<"i", ".", "m", "d">>, kind |-> "file", readable |-> FALSE, content |-> <<>>]

\* FileAlias: category software-b and model ds: the id of FileSw with
\* another domain, type and name, and a table of one row.
FileAlias ==
    [ path |-> <<"j", ".", "m", "d">>,
      kind |-> "file", readable |-> TRUE,
      content |->
        <<"-", "-", "-", "\n", "M", "\n", "S", "\n", "-", "-", "-", "\n", "|", " ",
          "P", "i", "n", " ", "|", " ", "G", " ", "|", " ", "N", " ", "|",
          "\n", "|", "-", "-", "-", "|", "-", "-", "-", "|", "-", "-", "-",
          "|", "\n", "|", " ", "1", " ", "|", " ", "4", " ", "|", " ", "C",
          " ", "|">> ]

FilePool ==
    { FileHw1, FileHw2, FileHw3, FileSw, FileAlias,
      FilePlain, FileUnterminated, FileBadYaml, FileNestedKey, FileUnreadable }

\* ParseMarkdownFile on each file of the pool, and the device the walk
\* callback builds from each file that parses.
Parsed == [f \in FilePool |-> ParseMarkdownFile(f)]

ParsedFiles == {f \in FilePool : ~Parsed[f].err}

DeviceOf == [f \in ParsedFiles |-> BuildDevice(f.path, Parsed[f].doc[1])]

PinoutsOf == [f \in ParsedFiles |-> Parsed[f].doc[1].Pinouts]

\* The number of InsertDevice calls recorded for an id.
UpsertCount(h, id) == IF id \in DOMAIN h THEN h[id].n ELSE 0

\* The database after a call.
SetDB(db) ==
    /\ devices' = db.devices
    /\ search_fts' = db.search_fts
    /\ pinoutRows' = db.pinoutRows
    /\ guides' = db.guides

\* Bounds on the storage calls of a run and on the statements that fail.
MaxCalls == 3
MaxFaults == 1

\* upsertDevice: InsertDevice called with the device of a parsed file.
UpsertDevice ==
    \E f \in ParsedFiles, fail \in {"none", "devices", "fts"} :
        LET r == InsertDevice(DB, DeviceOf[f], fail)
        IN  /\ calls < MaxCalls
            /\ fail # "none" => faults < MaxFaults /\ JsonOk(GoStringMap(DeviceOf[f].Metadata))
            /\ SetDB(r.db)
            /\ upserts' = Put(upserts, DeviceOf[f].ID,
                               [device |-> DeviceOf[f], err |-> r.err,
                                n |-> UpsertCount(upserts, DeviceOf[f].ID) + 1])
            /\ calls' = calls + 1
            /\ faults' = IF fail = "none" THEN faults ELSE faults + 1
            /\ UNCHANGED <<got, varsQ, varsC, varsP, varsI, varsX>>

\* upsertPinouts: InsertPinouts called with the pinouts of a parsed file for
\* the id of a stored device or of the file's own device.
UpsertPinouts ==
    \E f \in {g \in ParsedFiles : Len(PinoutsOf[g]) > 0} :
        \E id \in DOMAIN devices \cup {DeviceOf[f].ID}, failAt \in 0..Len(PinoutsOf[f]) :
            LET r == InsertPinouts(DB, id, PinoutsOf[f], failAt)
            IN  /\ calls < MaxCalls
                /\ failAt # 0 => faults < MaxFaults
                /\ SetDB(r.db)
                /\ calls' = calls + 1
                /\ faults' = IF failAt = 0 THEN faults ELSE faults + 1
                /\ UNCHANGED <<upserts, got, varsQ, varsC, varsP, varsI, varsX>>

\* clearAll: ClearDatabase.
ClearAll ==
    \E failAt \in 0..NumClearStatements :
        LET r == ClearDatabase(DB, failAt)
        IN  /\ calls < MaxCalls
            /\ failAt # 0 => faults < MaxFaults
            /\ SetDB(r.db)
            /\ upserts' = IF failAt = 0 THEN EmptyMap ELSE upserts
            /\ calls' = calls + 1
            /\ faults' = IF failAt = 0 THEN faults ELSE faults + 1
            /\ UNCHANGED <<got, varsQ, varsC, varsP, varsI, varsX>>

\* The ids GetDevice is called with: the id of every device of the pool and
\* an id no file has.
StrNoSuchID == <<"n", "o">>

ReadIds == {DeviceOf[f].ID : f \in ParsedFiles} \cup {StrNoSuchID}

\* GetDevice called with an id.
ReadDevice ==
    \E id \in ReadIds :
        /\ calls < MaxCalls
        /\ got' = Some([id |-> id, res |-> GetDevice(DB, id), at |-> calls + 1])
        /\ calls' = calls + 1
        /\ UNCHANGED <<upserts, faults, varsDB, varsQ, varsC, varsP, varsI, varsX>>

\* The queries of the search requests: a name; two words of two bodies with
\* the operator OR between them; a name and a word of a body; a hyphenated
\* phrase of a table header; the plural of a word of a table header; an
\* operator alone; a hyphen alone; and none.
SearchQueries ==
    { <<"D", "S">>, <<"y", " ", "O", "R", " ", "x">>, <<"d", "s", " ", "x">>,
      <<"p", "i", "n", "-", "g">>, <<"p", "i", "n", "s">>, <<"O", "R">>, <<"-">>, <<>> }

\* The arguments of the search requests.
SearchArgs ==
    [ Query  : SearchQueries,
      Domain : {Nil, Some("all"), Some(DomainHardware), Some(DomainSoftware)},
      Type   : {Nil, Some(<<"b">>)},
      Limit  : {Nil, Some(0), Some(1)} ]

\* The offsets of the SearchDevices calls.
SearchOffsets == {0, 1}

\* The limits of the SearchDevices calls that handleSearch does not make.
SearchLimits == {0}

\* The options SearchDevices is called with: those handleSearch builds, and
\* the same with another offset and with another limit.
SearchInputs ==
    {[handleSearchOptions(a) EXCEPT !.Offset = o] : a \in SearchArgs, o \in SearchOffsets}
    \cup {[handleSearchOptions(a) EXCEPT !.Limit = l] : a \in SearchArgs, l \in SearchLimits}

\* The texts the files of the pool put into search_fts, and MATCH on each of
\* them for the expression made of each query, computed once.
IndexedTexts ==
    {<<DeviceOf[f].Name, DeviceOf[f].Content, FlattenTags(DeviceOf[f].Metadata)>> :
        f \in ParsedFiles}

MatchTable ==
    [t \in IndexedTexts, e \in {buildFTSQuery(q) : q \in SearchQueries} |->
        FtsSyntaxOk(e) /\ FtsMatch(t[1], t[2], t[3], e)]

\* search_fts MATCH ? on a row of search_fts; no row is returned for an
\* expression FTS5 rejects.
RowMatches(row, e) ==
    Then(LAMBDA table :
            IF <<<<row.name, row.content, row.tags>>, e>> \in DOMAIN table
            THEN table[<<row.name, row.content, row.tags>>, e]
            ELSE FtsSyntaxOk(e) /\ FtsMatch(row.name, row.content, row.tags, e),
         MatchTable)

\* The rows of the join that match the query, whatever the domain and the
\* type of their device.
SearchRowsUnfiltered(db, opts) ==
    {k \in DOMAIN db.search_fts :
        /\ db.search_fts[k].device_id \in DOMAIN db.devices
        /\ RowMatches(db.search_fts[k], buildFTSQuery(opts.Query))}

\* The rows of the join of search_fts and devices that the WHERE clause
\* keeps, as indices of search_fts.
SearchRows(db, opts) ==
    {k \in DOMAIN db.search_fts :
        /\ db.search_fts[k].device_id \in DOMAIN db.devices
        /\ RowMatches(db.search_fts[k], buildFTSQuery(opts.Query))
        /\ opts.Domain # Nil => db.devices[db.search_fts[k].device_id].domain = opts.Domain[1]
        /\ opts.Type # Nil => db.devices[db.search_fts[k].device_id].type = opts.Type[1]}

\* ORDER BY fts.rank: the orders of the rows in which no row comes before a
\* row of lower rank; rows of equal rank come in any order.
RankedOrders(rows, rank) ==
    {o \in [1..Cardinality(rows) -> rows] :
        /\ \A i, j \in DOMAIN o : i # j => o[i] # o[j]
        /\ \A i, j \in DOMAIN o : i < j => rank[o[i]] <= rank[o[j]]}

\* LIMIT ? OFFSET ?: a negative limit is no limit, a negative offset is 0.
LimitOffset(seq, limit, offset) ==
    LET from == (IF offset < 0 THEN 0 ELSE offset) + 1
        upto == IF limit < 0 \/ from + limit - 1 > Len(seq) THEN Len(seq) ELSE from + limit - 1
    IN  SubSeq(seq, from, upto)

\* SearchDevices: [err, results]. rank gives the rank FTS5 computes for each
\* row and order the order the engine returns the matching rows in. With
\* LIMIT 0 the statement is over before the scan of search_fts is opened:
\* the expression is not parsed and no row is returned. With any other
\* limit db.Query fails when FTS5 rejects the expression, the empty one
\* included.
SearchDevices(db, opts, rank, order) ==
    IF opts.Limit = 0
    THEN [err |-> FALSE, results |-> <<>>]
    ELSE IF ~FtsSyntaxOk(buildFTSQuery(opts.Query))
    THEN [err |-> TRUE, results |-> <<>>]
    ELSE [err |-> FALSE,
          results |->
            LimitOffset(
                [i \in DOMAIN order |->
                    [ ID        |-> db.search_fts[order[i]].device_id,
                      Name      |-> db.devices[db.search_fts[order[i]].device_id].name,
                      Domain    |-> db.devices[db.search_fts[order[i]].device_id].domain,
                      Type      |-> db.devices[db.search_fts[order[i]].device_id].type,
                      Path      |-> db.devices[db.search_fts[order[i]].device_id].path,
                      Metadata  |->
                        JsonUnmarshal(db.devices[db.search_fts[order[i]].device_id].metadata).v,
                      Relevance |-> rank[order[i]] ]],
                opts.Limit, opts.Offset)]

\* The ranks FTS5 gives: negative numbers, the lower the more relevant.
RankValues == {-2, -1}

\* SearchDevices called with the options of a request.
SearchCall ==
    /\ calls < MaxCalls
    /\ \E opts \in SearchInputs :
        \E rows \in {SearchRows(DB, opts)} :
        \E rank \in [rows -> RankValues] :
        \E order \in RankedOrders(rows, rank) :
            /\ query' = opts.Query
            /\ ftsQuery' = buildFTSQuery(opts.Query)
            /\ qpc' = "done"
            /\ found' = Some([opts |-> opts, rank |-> rank,
                              res |-> SearchDevices(DB, opts, rank, order), at |-> calls + 1])
            /\ calls' = calls + 1
            /\ UNCHANGED <<upserts, faults, got, varsDB, varsC, varsP, varsI, varsX>>

\* Entries of the documentation directory that are no markdown files: a
\* directory whose name ends in .md, a text file, and a path filepath.Walk
\* reports with an error.
EntryDir == [path |-> <<"k", ".", "m", "d">>, kind |-> "dir", readable |-> TRUE, content |-> <<>>]

EntryTxt ==
    [path |-> <<"l", ".", "t", "x", "t">>, kind |-> "file", readable |-> TRUE, content |-> <<"x">>]

EntryErr == [path |-> <<"m", ".", "m", "d">>, kind |-> "err", readable |-> FALSE, content |-> <<>>]

\* filepath.Walk hands the entries to the callback in lexical order of their
\* names: the entries of the model in that order.
WalkOrder ==
    << FilePlain, FileHw1, FileHw2, FileHw3, FileSw, FileUnterminated, FileBadYaml,
       FileNestedKey, FileUnreadable, FileAlias, EntryDir, EntryTxt, EntryErr >>

StrDotMd == <<".", "m", "d">>

\* IndexDocumentation line 36: the new IndexResult.
ZeroResult ==
    [TotalFiles |-> 0, SuccessCount |-> 0, ErrorCount |-> 0, DevicesByType |-> EmptyMap]


\* result.DevicesByType[k] = 1 in the place of result.DevicesByType[k]++
IncrementSetsOne(m, k) == Put(m, k, 1)

\* result.DevicesByType[k]++
Increment(m, k) == Put(m, k, IF k \in DOMAIN m THEN m[k] + 1 ELSE 1)

\* The callback returning after a failed InsertPinouts as it does after a
\* failed InsertDevice: the file is counted as an error.
WalkFileStrictPinouts(db, counted, path, parsed, fail, failAt) ==
    IF parsed.err
    THEN [db |-> db, result |-> [counted EXCEPT !.ErrorCount = @ + 1],
          outcome |-> "parse failed", parse |-> Some(parsed), device |-> Nil]
    ELSE LET device == BuildDevice(path, parsed.doc[1])
             pins == parsed.doc[1].Pinouts
             ins == InsertDevice(db, device, fail)
             pin == IF Len(pins) > 0
                    THEN InsertPinouts(ins.db, device.ID, pins, failAt)
                    ELSE [db |-> ins.db, err |-> FALSE]
         IN  IF ins.err
             THEN [db |-> ins.db, result |-> [counted EXCEPT !.ErrorCount = @ + 1],
                   outcome |-> "insert failed", parse |-> Some(parsed), device |-> Some(device)]
             ELSE IF pin.err
             THEN [db |-> pin.db, result |-> [counted EXCEPT !.ErrorCount = @ + 1],
                   outcome |-> "pinouts failed", parse |-> Some(parsed), device |-> Some(device)]
             ELSE [db |-> pin.db,
                   result |-> [counted EXCEPT
                                  !.SuccessCount = @ + 1,
                                  !.DevicesByType = Increment(@, device.Domain)],
                   outcome |-> "indexed",
                   parse |-> Some(parsed), device |-> Some(device)]

\* The callback of filepath.Walk from line 69 on, on a markdown file and
\* what ParseMarkdownFile returned for it.
WalkFile(db, counted, path, parsed, fail, failAt) ==
    IF parsed.err
    THEN [db |-> db, result |-> [counted EXCEPT !.ErrorCount = @ + 1],
          outcome |-> "parse failed", parse |-> Some(parsed), device |-> Nil]
    ELSE LET device == BuildDevice(path, parsed.doc[1])
             pins == parsed.doc[1].Pinouts
             ins == InsertDevice(db, device, fail)
             pin == IF Len(pins) > 0
                    THEN InsertPinouts(ins.db, device.ID, pins, failAt)
                    ELSE [db |-> ins.db, err |-> FALSE]
         IN  IF ins.err
             THEN [db |-> ins.db, result |-> [counted EXCEPT !.ErrorCount = @ + 1],
                   outcome |-> "insert failed", parse |-> Some(parsed), device |-> Some(device)]
             ELSE [db |-> pin.db,
                   result |-> [counted EXCEPT
                                  !.SuccessCount = @ + 1,
                                  !.DevicesByType = Increment(@, device.Domain)],
                   outcome |-> IF pin.err THEN "pinouts failed" ELSE "indexed",
                   parse |-> Some(parsed), device |-> Some(device)]

\* The callback without its test of the name: every file that is no
\* directory is counted and parsed.
WalkFuncAnyName(db, res, e, fail, failAt) ==
    IF e.kind = "err" \/ e.kind = "dir"
    THEN [db |-> db, result |-> res, outcome |-> "skipped", parse |-> Nil, device |-> Nil]
    ELSE WalkFile(db, [res EXCEPT !.TotalFiles = @ + 1], e.path, ParseMarkdownFile(e),
                  fail, failAt)

\* The callback of filepath.Walk on one entry: [db, result, outcome, parse,
\* device]. fail and failAt name the statement the storage rejects in
\* InsertDevice and in InsertPinouts; parse is what ParseMarkdownFile
\* returned and device the device handed to InsertDevice, Nil when the
\* callback did not get that far.
WalkFunc(db, res, e, fail, failAt) ==
    IF e.kind = "err" \/ e.kind = "dir" \/ ~HasSuffix(ToLower(e.path), StrDotMd)
    THEN [db |-> db, result |-> res, outcome |-> "skipped", parse |-> Nil, device |-> Nil]
    ELSE WalkFile(db, [res EXCEPT !.TotalFiles = @ + 1], e.path, Parsed[e], fail, failAt)

\* The guides indexGuides looks for in the documentation directory.
GuideList ==
    << [id |-> "quickstart", title |-> "Quick Start Guide",
        filename |-> <<"Q", "U", "I", "C", "K", "S", "T", "A", "R", "T", ".", "m", "d">>],
       [id |-> "workflow", title |-> "Add Hardware Workflow",
        filename |-> <<"W", "O", "R", "K", "F", "L", "O", "W", "_", "A", "D", "D", "_",
                       "H", "A", "R", "D", "W", "A", "R", "E", ".", "m", "d">>],
       [id |-> "overview", title |-> "Repository Overview",
        filename |-> <<"R", "E", "A", "D", "M", "E", ".", "m", "d">>],
       [id |-> "contributing", title |-> "Contributing Guide",
        filename |-> <<"C", "O", "N", "T", "R", "I", "B", "U", "T", "I", "N", "G", ".", "m", "d">>] >>

\* The entries of the directory indexGuides reads for a guide: os.Stat finds
\* the name and os.ReadFile reads it, which it does for no directory and no
\* file the process may not read.
GuideFile(tree, filename) ==
    {e \in tree : e.path = filename /\ e.kind = "file" /\ e.readable}

\* indexGuides over the entries of the directory: [db, count]. A guide
\* whose file is missing or cannot be read is skipped; a guide whose
\* statement the storage rejects (those of failing) is not counted.
RECURSIVE indexGuidesFrom(_, _, _, _, _)
indexGuidesFrom(db, tree, failing, k, count) ==
    IF k > Len(GuideList) THEN [db |-> db, count |-> count]
    ELSE IF GuideFile(tree, GuideList[k].filename) = {}
    THEN indexGuidesFrom(db, tree, failing, k + 1, count)
    ELSE LET ins == InsertGuide(db, GuideList[k].id, GuideList[k].title,
                                (CHOOSE e \in GuideFile(tree, GuideList[k].filename) : TRUE).content,
                                GuideList[k].id \in failing)
         IN  indexGuidesFrom(ins.db, tree, failing, k + 1,
                             IF ins.err THEN count ELSE count + 1)

indexGuides(db, tree, failing) == indexGuidesFrom(db, tree, failing, 1, 0)

\* Bounds on the passes of a run and on the callbacks run over all passes.
MaxPasses == 2
MaxVisits == 2

\* IndexDocumentation going on to the walk whatever ClearDatabase returned.
StartIndexIgnoringClearError ==
    \E clear \in BOOLEAN, failAt \in 0..NumClearStatements :
        LET r == IF clear THEN ClearDatabase(DB, failAt) ELSE [db |-> DB, err |-> FALSE]
        IN  /\ ipc \in {"idle", "returned"}
            /\ passes < MaxPasses
            /\ failAt # 0 => clear /\ faults < MaxFaults
            /\ SetDB(r.db)
            /\ clearOpt' = clear
            /\ result' = ZeroResult
            /\ walked' = {}
            /\ last' = Nil
            /\ retErr' = FALSE
            /\ ipc' = "walking"
            /\ passes' = passes + 1
            /\ faults' = IF failAt = 0 THEN faults ELSE faults + 1
            /\ upserts' = IF clear /\ failAt = 0 THEN EmptyMap ELSE upserts
            /\ UNCHANGED <<calls, got, visits, varsQ, varsC, varsP, varsX>>

\* IndexDocumentation lines 34-47: the result is made and, with
\* opts.Clear, ClearDatabase runs; its error is returned with no result.
StartIndex ==
    \E clear \in BOOLEAN, failAt \in 0..NumClearStatements :
        LET r == IF clear THEN ClearDatabase(DB, failAt) ELSE [db |-> DB, err |-> FALSE]
        IN  /\ ipc \in {"idle", "returned"}
            /\ passes < MaxPasses
            /\ failAt # 0 => clear /\ faults < MaxFaults
            /\ SetDB(r.db)
            /\ clearOpt' = clear
            /\ result' = IF r.err THEN Nil ELSE ZeroResult
            /\ walked' = {}
            /\ last' = Nil
            /\ retErr' = r.err
            /\ ipc' = IF r.err THEN "returned" ELSE "walking"
            /\ passes' = passes + 1
            /\ faults' = IF failAt = 0 THEN faults ELSE faults + 1
            /\ upserts' = IF clear /\ failAt = 0 THEN EmptyMap ELSE upserts
            /\ UNCHANGED <<calls, got, visits, varsQ, varsC, varsP, varsX>>

\* The callback returning its error to filepath.Walk: the walk stops at the
\* first file that fails and IndexDocumentation returns the error.
VisitedAbortOnError(i, r, injected) ==
    /\ faults + injected <= MaxFaults
    /\ SetDB(r.db)
    /\ result' = r.result
    /\ walked' = walked \cup {i}
    /\ last' = Some([entry |-> i, outcome |-> r.outcome, parse |-> r.parse])
    /\ visits' = visits + 1
    /\ faults' = faults + injected
    /\ upserts' = IF r.device # Nil
                  THEN Put(upserts, r.device[1].ID,
                           [device |-> r.device[1], err |-> r.outcome = "insert failed",
                            n |-> UpsertCount(upserts, r.device[1].ID) + 1])
                  ELSE upserts
    /\ ipc' = IF r.outcome \in {"parse failed", "insert failed"} THEN "returned" ELSE ipc
    /\ retErr' = (r.outcome \in {"parse failed", "insert failed"})
    /\ UNCHANGED <<clearOpt, passes, calls, got, varsQ, varsC, varsP, varsX>>

\* The state after the callback ran on entry i with outcome r.
Visited(i, r, injected) ==
    /\ faults + injected <= MaxFaults
    /\ SetDB(r.db)
    /\ result' = r.result
    /\ walked' = walked \cup {i}
    /\ last' = Some([entry |-> i, outcome |-> r.outcome, parse |-> r.parse])
    /\ visits' = visits + 1
    /\ faults' = faults + injected
    /\ upserts' = IF r.device # Nil
                  THEN Put(upserts, r.device[1].ID,
                           [device |-> r.device[1], err |-> r.outcome = "insert failed",
                            n |-> UpsertCount(upserts, r.device[1].ID) + 1])
                  ELSE upserts
    /\ UNCHANGED <<ipc, clearOpt, retErr, passes, calls, got, varsQ, varsC, varsP, varsX>>

\* A storage failure is injected only where the callback runs the statement:
\* in InsertDevice when the metadata was marshalled, in InsertPinouts at one
\* of the rows it writes.
Injectable(r, fail, failAt) ==
    /\ fail # "none" => r.outcome = "insert failed" /\ JsonOk(GoStringMap(r.device[1].Metadata))
    /\ failAt # 0 => r.outcome = "pinouts failed" /\ failAt <= Len(r.parse[1].doc[1].Pinouts)

\* IndexDocumentation lines 51-130: filepath.Walk hands the next entry of the
\* directory to the callback. The directory is any set of entries; an entry
\* is met after those before it in WalkOrder.
VisitPath ==
    \E i \in 1..Len(WalkOrder), fail \in {"none", "devices", "fts"}, failAt \in 0..2 :
        /\ ipc = "walking"
        /\ visits < MaxVisits
        /\ \A j \in walked : j < i
        /\ Injectable(WalkFunc(DB, result, WalkOrder[i], fail, failAt), fail, failAt)
        /\ Visited(i, WalkFunc(DB, result, WalkOrder[i], fail, failAt),
                   (IF fail = "none" THEN 0 ELSE 1) + (IF failAt = 0 THEN 0 ELSE 1))

\* IndexDocumentation lines 132-159: the walk is over, indexGuides runs and
\* the result is returned.
FinishIndex ==
    \E failing \in SUBSET {GuideList[k].id : k \in DOMAIN GuideList} :
        /\ ipc = "walking"
        /\ \A k \in DOMAIN GuideList :
            GuideList[k].id \in failing =>
                GuideFile({WalkOrder[i] : i \in walked}, GuideList[k].filename) # {}
        /\ faults + Cardinality(failing) <= MaxFaults
        /\ SetDB(indexGuides(DB, {WalkOrder[i] : i \in walked}, failing).db)
        /\ faults' = faults + Cardinality(failing)
        /\ ipc' = "returned"
        /\ retErr' = FALSE
        /\ UNCHANGED <<clearOpt, walked, result, last, passes, visits, upserts, calls, got,
                       varsQ, varsC, varsP, varsX>>

----------------------------------------------------------------------------
(* Concurrent passes: several processes (or goroutines) call               *)
(* IndexDocumentation on one database. No call opens a transaction and     *)
(* the index command takes no lock, so every statement commits by itself   *)
(* and the statements of the passes interleave: a step here is one         *)
(* statement, with what the pass does on its own before it (the file       *)
(* system, the parser, the counters of its result).                        *)

\* The passes that run on the database.
Runs == {1, 2}

\* Bound on the entries one of the concurrent passes visits.
MaxRunVisits == 1

\* A pass that has not started. err says that the pass returned an error,
\* which it does with no result.
JobIdle ==
    [pc |-> "idle", k |-> 0, at |-> 0, walked |-> {}, result |-> ZeroResult, err |-> FALSE]

\* IndexDocumentation lines 43-45: ClearDatabase returned an error; the pass
\* returns nil and "failed to clear database".
ClearFailed(job) == [job EXCEPT !.pc = "returned", !.k = 0, !.result = Nil, !.err = TRUE]

\* IndexDocumentation lines 34-47 with opts.Clear, as the index command
\* always sets it: the result is made and ClearDatabase runs its first
\* statement. When the storage rejects the statement (the database is
\* locked by another writer, say) nothing is deleted and the pass returns
\* the error.
RunStart(r) ==
    \E fail \in BOOLEAN :
        /\ jobs[r].pc = "idle"
        /\ IF fail
           THEN /\ UNCHANGED varsDB
                /\ jobs' = [jobs EXCEPT ![r] = ClearFailed(JobIdle)]
           ELSE /\ SetDB(ClearStatement(DB, 1))
                /\ jobs' = [jobs EXCEPT ![r] = [JobIdle EXCEPT !.pc = "clearing", !.k = 1]]
        /\ UNCHANGED <<pub, remote, varsY, varsH, varsI, varsQ, varsC, varsP>>

\* ClearDatabase lines 126-130: the next DELETE statement of pass r. When it
\* fails ClearDatabase stops there, with the tables before it cleared, and
\* the pass returns the error.
RunClear(r) ==
    \E fail \in BOOLEAN :
        /\ jobs[r].pc = "clearing"
        /\ IF fail
           THEN /\ UNCHANGED varsDB
                /\ jobs' = [jobs EXCEPT ![r] = ClearFailed(@)]
           ELSE /\ SetDB(ClearStatement(DB, jobs[r].k + 1))
                /\ jobs' = [jobs EXCEPT
                               ![r].pc = IF jobs[r].k + 1 = NumClearStatements
                                         THEN "walking" ELSE @,
                               ![r].k = IF jobs[r].k + 1 = NumClearStatements
                                        THEN 0 ELSE @ + 1]
        /\ UNCHANGED <<pub, remote, varsY, varsH, varsI, varsQ, varsC, varsP>>

\* The callback of pass r is over for the entry it is at: lines 126-129
\* count the file as a success.
CallbackDone(job) ==
    [job EXCEPT
        !.pc = "walking", !.k = 0, !.at = 0,
        !.walked = @ \cup {job.at},
        !.result = [@ EXCEPT
                        !.SuccessCount = @ + 1,
                        !.DevicesByType = Increment(@, DeviceOf[WalkOrder[job.at]].Domain)]]

\* The callback of pass r is over for the entry it is at with an error of
\* InsertDevice: lines 94-101 count the file as an error.
CallbackFailed(job) ==
    [job EXCEPT
        !.pc = "walking", !.k = 0, !.at = 0,
        !.walked = @ \cup {job.at},
        !.result = [@ EXCEPT !.ErrorCount = @ + 1]]

\* The callback on entry i up to its first statement, w being what the
\* callback makes of the entry: an entry that is skipped, a file that does
\* not parse, metadata json.Marshal rejects and a statement on devices the
\* storage rejects end the callback with nothing written; for any other
\* file the statement on devices runs.
RunVisited(r, i, w) ==
    IF w.outcome \in {"skipped", "parse failed", "insert failed"}
    THEN /\ UNCHANGED varsDB
         /\ jobs' = [jobs EXCEPT ![r].walked = @ \cup {i}, ![r].result = w.result]
    ELSE /\ SetDB(ReplaceDeviceRow(DB, w.device[1]))
         /\ jobs' = [jobs EXCEPT
                        ![r].pc = "fts", ![r].at = i,
                        ![r].result = [@ EXCEPT !.TotalFiles = @ + 1]]

\* IndexDocumentation lines 51-102: the callback of pass r on its next
\* entry; fail = "devices" when the storage rejects the statement on
\* devices (InsertDevice lines 27-29).
RunVisit(r) ==
    \E i \in 1..Len(WalkOrder), fail \in {"none", "devices"} :
        /\ jobs[r].pc = "walking"
        /\ Cardinality(jobs[r].walked) < MaxRunVisits
        /\ \A j \in jobs[r].walked : j < i
        /\ \E w \in {WalkFunc(DB, jobs[r].result, WalkOrder[i], fail, 0)} :
            /\ Injectable(w, fail, 0)
            /\ RunVisited(r, i, w)
        /\ UNCHANGED <<pub, remote, varsY, varsH, varsI, varsQ, varsC, varsP>>

\* InsertDevice lines 40-46: the statement on search_fts; the callback goes
\* on to InsertPinouts when the document has pinouts. When the statement
\* fails InsertDevice returns its error with the row of devices written, and
\* the callback counts the file as an error and leaves its pinouts.
RunFts(r) ==
    \E fail \in BOOLEAN :
        /\ jobs[r].pc = "fts"
        /\ IF fail
           THEN /\ UNCHANGED varsDB
                /\ jobs' = [jobs EXCEPT ![r] = CallbackFailed(@)]
           ELSE /\ SetDB(InsertFtsRow(DB, DeviceOf[WalkOrder[jobs[r].at]]))
                /\ jobs' = [jobs EXCEPT
                               ![r] = IF Len(PinoutsOf[WalkOrder[jobs[r].at]]) > 0
                                      THEN [@ EXCEPT !.pc = "pinouts", !.k = 0]
                                      ELSE CallbackDone(@)]
        /\ UNCHANGED <<pub, remote, varsY, varsH, varsI, varsQ, varsC, varsP>>

\* InsertPinouts lines 63-84: the statement of the next row. It fails when
\* the device is no longer in devices (foreign key) and when the storage
\* rejects it; the row and those after it are then not written and
\* InsertPinouts returns its error, which the callback only logs (lines
\* 105-114): the file is counted as a success.
RunPinout(r) ==
    \E fail \in BOOLEAN :
        /\ jobs[r].pc = "pinouts"
        /\ LET pins == PinoutsOf[WalkOrder[jobs[r].at]]
               ins == InsertPinoutsFrom(DB, DeviceOf[WalkOrder[jobs[r].at]].ID,
                                        <<pins[jobs[r].k + 1]>>, IF fail THEN 1 ELSE 0, 1)
           IN  /\ SetDB(ins.db)
               /\ jobs' = [jobs EXCEPT
                              ![r] = IF ins.err \/ jobs[r].k + 1 = Len(pins)
                                     THEN CallbackDone(@)
                                     ELSE [@ EXCEPT !.k = @ + 1]]
        /\ UNCHANGED <<pub, remote, varsY, varsH, varsI, varsQ, varsC, varsP>>

\* The guides after the k-th whose file indexGuides reads in the directory.
GuidesLeft(tree, k) ==
    {g \in (k + 1)..Len(GuideList) : GuideFile(tree, GuideList[g].filename) # {}}

\* IndexDocumentation lines 132-159: the walk is over and indexGuides runs
\* the statement of its next guide; pass r returns after the last. A guide
\* whose statement fails is logged and left out (indexGuides lines 212-215).
RunFinish(r) ==
    \E fail \in BOOLEAN :
        /\ jobs[r].pc \in {"walking", "guides"}
        /\ LET tree == {WalkOrder[i] : i \in jobs[r].walked}
               left == GuidesLeft(tree, jobs[r].k)
               g == MinOf(left)
           IN  IF left = {}
               THEN /\ ~fail
                    /\ UNCHANGED varsDB
                    /\ jobs' = [jobs EXCEPT ![r].pc = "returned", ![r].k = 0]
               ELSE /\ SetDB(InsertGuide(DB, GuideList[g].id, GuideList[g].title,
                                         (CHOOSE e \in GuideFile(tree, GuideList[g].filename) : TRUE).content,
                                         fail).db)
                    /\ jobs' = [jobs EXCEPT
                                   ![r].pc = IF GuidesLeft(tree, g) = {} THEN "returned" ELSE "guides",
                                   ![r].k = IF GuidesLeft(tree, g) = {} THEN 0 ELSE g]
        /\ UNCHANGED <<pub, remote, varsY, varsH, varsI, varsQ, varsC, varsP>>

----------------------------------------------------------------------------
(* The tools that publish and reindex: handlePublish, handlePublishBatch   *)
(* and handleTriggerReindex (internal/mcp/server.go). The API they call is *)
(* outside the repository: an upload or a trigger succeeds or fails, a     *)
(* triggered reindex makes the status "running", and the status goes back  *)
(* to "idle" when the reindex is over. A call the client reports as failed *)
(* may have been served all the same (the answer is lost or not decoded).  *)
(* The status of an idle API comes with or without last_run.               *)

\* Neither handlePublish nor handlePublishBatch has been called.
PubIdle ==
    [ tool |-> "none", pc |-> "idle", dest |-> "", source |-> "none", wait |-> FALSE,
      files |-> 0, successCount |-> 0,
      uploaded |-> FALSE, uploadFailed |-> FALSE,
      triggerCalled |-> FALSE, triggered |-> FALSE,
      polls |-> 0, sawIdle |-> FALSE, isError |-> FALSE ]

\* The number of status polls of the wait loop.
PollLimit == 30

\* Bound on the files of a publish_batch call.
MaxBatchFiles == 2

\* handlePublish lines 1071-1097: the arguments are read; without dest_path,
\* with a local_path that cannot be read, or with neither local_path nor
\* content, an error result is returned.
PublishCall ==
    \E dest \in {"", "a.md"}, source \in {"local", "unreadable", "content", "none"},
       wait \in BOOLEAN :
        /\ pub.pc = "idle"
        /\ pub' = [pub EXCEPT
                      !.tool = "publish",
                      !.dest = dest, !.source = source, !.wait = wait,
                      !.pc = IF dest = "" \/ source \in {"unreadable", "none"}
                             THEN "returned" ELSE "upload",
                      !.isError = (dest = "" \/ source \in {"unreadable", "none"})]
        /\ UNCHANGED <<jobs, remote, varsY, varsDB, varsH, varsI, varsQ, varsC, varsP>>

\* handlePublish lines 1103-1106: UploadFile; its error is returned as an
\* error result.
PublishUpload ==
    \E ok \in BOOLEAN :
        /\ pub.tool = "publish"
        /\ pub.pc = "upload"
        /\ pub' = [pub EXCEPT
                      !.uploaded = ok, !.uploadFailed = ~ok, !.isError = ~ok,
                      !.pc = IF ok THEN "trigger" ELSE "returned"]
        /\ UNCHANGED <<jobs, remote, varsY, varsDB, varsH, varsI, varsQ, varsC, varsP>>

\* handlePublishBatch lines 1166-1181: the files argument is read; when it
\* is missing, is no JSON array of files or is empty, an error result is
\* returned.
PublishBatchCall ==
    \E arg \in {"missing", "malformed", "array"}, files \in 0..MaxBatchFiles,
       wait \in BOOLEAN :
        /\ pub.pc = "idle"
        /\ arg # "array" => files = 0
        /\ pub' = [pub EXCEPT
                      !.tool = "publish_batch",
                      !.wait = wait,
                      !.files = files,
                      !.pc = IF files > 0 THEN "upload" ELSE "returned",
                      !.isError = (files = 0)]
        /\ UNCHANGED <<jobs, remote, varsY, varsDB, varsH, varsI, varsQ, varsC, varsP>>

\* handlePublishBatch lines 1186-1232: the next file of the batch. A file
\* without dest_path, one that cannot be read, one without content and one
\* whose upload fails are noted and passed over. After the last file the
\* handler returns when no file was uploaded (lines 1230-1232).
PublishBatchUpload ==
    \E ok \in BOOLEAN :
        /\ pub.tool = "publish_batch"
        /\ pub.pc = "upload"
        /\ LET count == pub.successCount + (IF ok THEN 1 ELSE 0)
               done == pub.files = 1
           IN  pub' = [pub EXCEPT
                          !.files = @ - 1,
                          !.successCount = count,
                          !.uploaded = (count > 0),
                          !.uploadFailed = (done /\ count = 0),
                          !.pc = IF ~done THEN "upload"
                                 ELSE IF count = 0 THEN "returned" ELSE "trigger"]
        /\ UNCHANGED <<jobs, remote, varsY, varsDB, varsH, varsI, varsQ, varsC, varsP>>

\* handlePublish lines 1117-1129 and 1148-1155, handlePublishBatch lines
\* 1235-1243 and 1257-1262: TriggerReindex; on its error the result is
\* returned with a warning; without wait_for_reindex the result is returned
\* at once. ok says that the client returned no error and started that the
\* API started the reindex.
PublishTrigger ==
    \E ok, started \in BOOLEAN :
        /\ pub.pc = "trigger"
        /\ ok => started
        /\ pub' = [pub EXCEPT
                      !.triggerCalled = TRUE,
                      !.triggered = ok,
                      !.pc = IF ok /\ pub.wait THEN "poll" ELSE "returned"]
        /\ remote' = IF started THEN "running" ELSE remote
        /\ UNCHANGED <<jobs, varsY, varsDB, varsH, varsI, varsQ, varsC, varsP>>

\* handlePublish lines 1133-1147, handlePublishBatch lines 1245-1256: one
\* turn of the wait loop: after the sleep GetReindexStatus is called; the
\* loop ends on its error, on the status "idle" and after the last turn. On
\* the status "idle" the handler reads the fields of status.LastRun, a
\* pointer that is nil when the answer has no last_run: the handler then
\* panics and returns no result.
PublishPoll ==
    \E err, lastRun \in BOOLEAN :
        /\ pub.pc = "poll"
        /\ pub' = [pub EXCEPT
                      !.polls = @ + 1,
                      !.sawIdle = ~err /\ remote = "idle",
                      !.pc = IF ~err /\ remote = "idle" /\ ~lastRun THEN "panicked"
                             ELSE IF err \/ remote = "idle" \/ pub.polls + 1 = PollLimit
                             THEN "returned" ELSE "poll"]
        /\ UNCHANGED <<jobs, remote, varsY, varsDB, varsH, varsI, varsQ, varsC, varsP>>

\* handleTriggerReindex lines 982-989: the tool trigger_reindex calls
\* TriggerReindex and returns its answer or its error; it may be called at
\* any time, also while handlePublish runs.
TriggerReindexCall ==
    \E ok, started \in BOOLEAN :
        /\ ok => started
        /\ remote' = IF started THEN "running" ELSE remote
        /\ UNCHANGED <<jobs, pub, varsY, varsDB, varsH, varsI, varsQ, varsC, varsP>>

\* The reindex running on the API side comes to its end.
ReindexCompletes ==
    /\ remote = "running"
    /\ remote' = "idle"
    /\ UNCHANGED <<jobs, pub, varsY, varsDB, varsH, varsI, varsQ, varsC, varsP>>

\* The lines bodies are made of: a header, a separator, a plain row, a row
\* with the "-" placeholder, a row with all six columns, a row whose pin is
\* not a number, a row of two cells, a blank line and a line of prose.
LineHeader == <<"|", " ", "P", "i", "n", " ", "|", " ", "G", " ", "|", " ", "N", " ", "|">>
LineSeparator == <<"|", "-", "-", "-", "|", "-", "-", "-", "|", "-", "-", "-", "|">>
LineRow1 == <<"|", " ", "1", " ", "|", " ", "2", " ", "|", " ", "A", " ", "|">>
LineRowDash == <<"|", " ", "2", " ", "|", " ", "-", " ", "|", " ", "B", " ", "|">>
LineRowFull ==
    <<"|", " ", "3", " ", "|", " ", "4", " ", "|", " ", "C", " ", "|", " ",
      "H", "i", "g", "h", " ", "|", " ", "I", ",", " ", "S", " ", "|", " ", "d", " ", "|">>
LineRowBadPin == <<"|", " ", "x", " ", "|", " ", "5", " ", "|", " ", "D", " ", "|">>
LineRowShort == <<"|", " ", "6", " ", "|", " ", "7", " ", "|">>
LineBlank == <<>>
LineText == <<"t", "e", "x", "t">>

LinePool ==
    { LineHeader, LineSeparator, LineRow1, LineRowDash, LineRowFull,
      LineRowBadPin, LineRowShort, LineBlank, LineText }

\* Bound on the number of lines of a body.
MaxLines == 4

Bodies == SeqsUpTo(LinePool, MaxLines)

\* Bound on the number of rows of a table.
MaxTableRows == 1

\* The rows of the tables: a plain row, a row with the "-" placeholder, a
\* row with all six columns and a row whose pin is not a number.
TableRows == {LineRow1, LineRowDash, LineRowFull, LineRowBadPin}

\* Bodies with one table and what comes after it: a header, a separator and
\* rows; a blank line or a line of prose; then nothing, a second header and
\* separator, a separator alone or a header alone; then rows again.
TableBodies ==
    { <<LineHeader, LineSeparator>> \o rows1 \o <<gap>> \o mid \o rows2 :
        rows1 \in SeqsUpTo(TableRows, MaxTableRows),
        gap \in {LineBlank, LineText},
        mid \in {<<>>, <<LineHeader, LineSeparator>>, <<LineSeparator>>, <<LineHeader>>},
        rows2 \in SeqsUpTo(TableRows, MaxTableRows) }

\* A row for pin 1 again, with another GPIO and name.
LineRow1Again == <<"|", " ", "1", " ", "|", " ", "7", " ", "|", " ", "Z", " ", "|">>

\* The lists InsertPinouts is called with: the pinouts of the files of the
\* pool and the pinouts of tables that give a physical pin twice, with a
\* row between the two or with none.
PinLists ==
    {PinoutsOf[f] : f \in {g \in ParsedFiles : Len(PinoutsOf[g]) > 0}}
    \cup { extractPinouts(<<LineHeader, LineSeparator, LineRow1, LineRow1Again>>),
           extractPinouts(<<LineHeader, LineSeparator, LineRow1Again, LineRowFull, LineRow1>>) }

\* upsertPinouts: InsertPinouts called with a list for the id of a stored
\* device or for the id of a device that is not stored; the call is recorded.
UpsertPinoutList ==
    /\ calls < MaxCalls
    /\ \E pins \in PinLists :
        \E id \in DOMAIN devices \cup {StrNoSuchID}, failAt \in 0..Len(pins) :
            LET r == InsertPinouts(DB, id, pins, failAt)
            IN  /\ failAt # 0 => faults < MaxFaults
                /\ SetDB(r.db)
                /\ pinCall' = Some([id |-> id, pins |-> pins, err |-> r.err, at |-> calls + 1])
                /\ calls' = calls + 1
                /\ faults' = IF failAt = 0 THEN faults ELSE faults + 1
                /\ UNCHANGED <<upserts, got, jobs, pub, remote, naming,
                               varsQ, varsC, varsP, varsI>>

\* The frontmatter blocks of the files that are named: for each key, no
\* line or one of its lines, in the order model, manufacturer, category,
\* tags, specs.
FrontBlocks ==
    { Join(m \o f \o c \o t \o p, <<"\n">>) :
        m \in {<<>>, << <<"m">> >>, << <<"M">> >>},
        f \in {<<>>, << <<"f">> >>},
        c \in {<<>>, << <<"h">> >>, << <<"s">> >>, << <<"S">> >>},
        t \in {<<>>, << <<"t">> >>},
        p \in {<<>>, << <<"p">> >>, << <<"q">> >>} }

\* The content of a file with the frontmatter block y and a body of one word.
FileWithBlock(y) == StrDelimOpen \o y \o StrDelimClose \o <<"\n", "x">>

\* The walk callback, lines 69-91: the file is parsed and the device is
\* built, its name coming from getDeviceName.
NameDevice ==
    /\ naming # Nil
    /\ naming[1].name = Nil
    /\ LET parsed == ParseContent(extractFrontmatter(FileWithBlock(naming[1].yaml)))
       IN  /\ ~parsed.err
           /\ naming' = Some([naming[1] EXCEPT
                                 !.name = Some(BuildDevice(FileHw1.path, parsed.doc[1]).Name)])
    /\ UNCHANGED <<jobs, pub, remote, pinCall, varsQ, varsC, varsP, varsDB, varsH, varsI>>

InitP0 ==
    /\ body = <<>>
    /\ pos = 0
    /\ inTable = FALSE
    /\ headerFound = FALSE
    /\ pinouts = <<>>

InitQ0 == query = <<>> /\ ftsQuery = <<>> /\ qpc = "input" /\ found = Nil

\* InitDatabase on a new file: every table is empty.
InitDB0 ==
    /\ devices = EmptyMap
    /\ search_fts = <<>>
    /\ pinoutRows = EmptyMap
    /\ guides = EmptyMap

InitH0 == upserts = EmptyMap /\ calls = 0 /\ faults = 0 /\ got = Nil

\* No storage call is in progress and InsertPinouts has not been called.
InitY0 == pinCall = Nil

\* No concurrent pass has started, the publish tool has not been called and
\* no device has been named.
InitX0 ==
    /\ jobs = [r \in Runs |-> JobIdle]
    /\ pub = PubIdle
    /\ remote = "idle"
    /\ naming = Nil
    /\ InitY0

\* Before IndexDocumentation is called.
InitI0 ==
    /\ ipc = "idle"
    /\ clearOpt = FALSE
    /\ walked = {}
    /\ result = ZeroResult
    /\ retErr = FALSE
    /\ last = Nil
    /\ passes = 0
    /\ visits = 0

InitC0 ==
    /\ category = <<>>
    /\ model = <<>>
    /\ domain = DomainHardware
    /\ devType = <<>>
    /\ deviceID = <<>>
    /\ cpc = "input"

InitFTS ==
    /\ query \in Queries /\ ftsQuery = <<>> /\ qpc = "input" /\ found = Nil
    /\ InitC0 /\ InitP0 /\ InitDB0 /\ InitH0 /\ InitI0 /\ InitX0

NextFTS == BuildQuery

\* The query builder applied to every query of Queries.
SpecFTS == InitFTS /\ [][NextFTS]_vars

InitCat ==
    /\ InitQ0
    /\ InitP0
    /\ InitDB0
    /\ InitH0
    /\ InitI0 /\ InitX0
    /\ category \in Categories
    /\ model = <<>>
    /\ domain = DomainHardware
    /\ devType = <<>>
    /\ deviceID = <<>>
    /\ cpc = "input"

NextCat == Classify

\* The classifier applied to every category of Categories.
SpecCat == InitCat /\ [][NextCat]_vars

InitID ==
    /\ InitQ0
    /\ InitP0
    /\ InitDB0
    /\ InitH0
    /\ InitI0 /\ InitX0
    /\ category \in IdCategories
    /\ model \in IdModels
    /\ domain = DomainHardware
    /\ devType = <<>>
    /\ deviceID = <<>>
    /\ cpc = "input"

NextID == GenerateID

\* The id generator applied to every pair of IdCategories and IdModels.
SpecID == InitID /\ [][NextID]_vars

InitPin ==
    /\ InitQ0
    /\ InitC0
    /\ InitDB0
    /\ InitH0
    /\ InitI0 /\ InitX0
    /\ body \in Bodies
    /\ pos = 0
    /\ inTable = FALSE
    /\ headerFound = FALSE
    /\ pinouts = <<>>

NextPin == ScanLine

InitTables ==
    /\ InitQ0
    /\ InitC0
    /\ InitDB0
    /\ InitH0
    /\ InitI0 /\ InitX0
    /\ body \in TableBodies
    /\ pos = 0
    /\ inTable = FALSE
    /\ headerFound = FALSE
    /\ pinouts = <<>>

\* extractPinouts run line by line over every body of TableBodies.
SpecTables == InitTables /\ [][NextPin]_vars

\* extractPinouts run line by line over every body of Bodies.
SpecPin == InitPin /\ [][NextPin]_vars

InitStore == InitQ0 /\ InitC0 /\ InitP0 /\ InitDB0 /\ InitH0 /\ InitI0 /\ InitX0

NextStore == UpsertDevice \/ UpsertPinouts \/ ClearAll \/ ReadDevice

\* The storage writer and GetDevice called in any order on a new database.
SpecStore == InitStore /\ [][NextStore]_vars

\* A run writes to the store, no statement failing, and then searches it once.
NextSearch ==
    \/ found = Nil /\ UpsertDevice /\ faults' = faults
    \/ found = Nil /\ ClearAll
    \/ found = Nil /\ SearchCall

\* SearchDevices called on the stores the writer builds from a new database.
SpecSearch == InitStore /\ [][NextSearch]_vars

NextRuns ==
    \E r \in Runs :
        RunStart(r) \/ RunClear(r) \/ RunVisit(r) \/ RunFts(r) \/ RunPinout(r) \/ RunFinish(r)

\* Two passes of the index command started on one new database.
SpecRuns == InitStore /\ [][NextRuns]_vars

NextPub ==
    \/ PublishCall \/ PublishUpload \/ PublishBatchCall \/ PublishBatchUpload
    \/ PublishTrigger \/ PublishPoll \/ TriggerReindexCall \/ ReindexCompletes

\* One call of the publish tool.
SpecPub == InitStore /\ [][NextPub]_vars

\* Devices are written, no statement failing, and InsertPinouts is called.
NextPins ==
    \/ UpsertDevice /\ faults' = faults
    \/ UpsertPinoutList

\* InsertPinouts called with any list of PinLists on the stores InsertDevice
\* builds from a new database.
SpecPins == InitStore /\ [][NextPins]_vars

InitName ==
    /\ InitQ0 /\ InitC0 /\ InitP0 /\ InitDB0 /\ InitH0 /\ InitI0 /\ InitY0
    /\ jobs = [r \in Runs |-> JobIdle]
    /\ pub = PubIdle
    /\ remote = "idle"
    /\ naming \in {Some([yaml |-> y, name |-> Nil]) : y \in FrontBlocks}

NextName == NameDevice

\* The device of a file with each frontmatter block of FrontBlocks is named.
SpecName == InitName /\ [][NextName]_vars

Init == InitQ0 /\ InitC0 /\ InitP0 /\ InitDB0 /\ InitH0 /\ InitI0 /\ InitX0

Next == StartIndex \/ VisitPath \/ FinishIndex

\* Indexing passes over a new database, one after the other.
Spec == Init /\ [][Next]_vars

----------------------------------------------------------------------------
(* Properties of the query builder, checked under SpecFTS.                 *)

\* The number of maximal runs of characters outside seps.
NumRuns(s, seps) ==
    Cardinality({i \in 1..Len(s) : s[i] \notin seps /\ (i = 1 \/ s[i - 1] \in seps)})

WhiteSpace == {" ", "\t", "\n", "\r"}

\* The k-th smallest element of a finite set of integers.
Nth(S, k) == CHOOSE x \in S : Cardinality({y \in S : y < x}) = k - 1

NonSpacePos(s) == {i \in 1..Len(s) : s[i] \notin WhiteSpace}

\* Reads a quoted payload back: each doubled quote is one quote; a quote
\* that is not doubled is not a legal payload character and reads as "?".
RECURSIVE Undouble(_)
Undouble(s) ==
    IF s = <<>> THEN <<>>
    ELSE IF Head(s) = DQ
         THEN IF Len(s) >= 2 /\ s[2] = DQ
              THEN <<DQ>> \o Undouble(SubSeq(s, 3, Len(s)))
              ELSE <<"?">> \o Undouble(Tail(s))
         ELSE <<Head(s)>> \o Undouble(Tail(s))

\* s is exactly t wrapped in one pair of double quotes, embedded quotes doubled.
IsQuotedPhrase(s, t) ==
    /\ Len(s) = Len(t) + CountOf(t, DQ) + 2
    /\ s[1] = DQ
    /\ s[Len(s)] = DQ
    /\ Undouble(SubSeq(s, 2, Len(s) - 1)) = t

\* out is the words of q, as they stand, separated by exactly one space.
IsWordsSingleSpaced(out, q) ==
    LET P == NonSpacePos(q)
        R == NonSpacePos(out)
        m == Cardinality(P)
    IN  /\ Cardinality(R) = m
        /\ \A i \in 1..Len(out) : out[i] \in WhiteSpace => out[i] = " "
        /\ m = 0 => out = <<>>
        /\ m > 0 => Len(out) = Nth(R, m) /\ Nth(R, 1) = 1
        /\ \A k \in 1..m : out[Nth(R, k)] = q[Nth(P, k)]
        /\ \A k \in 1..(m - 1) :
              Nth(R, k + 1) = Nth(R, k) + (IF Nth(P, k + 1) = Nth(P, k) + 1 THEN 1 ELSE 2)

\* out is the words of q separated by exactly one space, each word that
\* holds a hyphen wrapped in quotes of its own and every other word as it stands.
IsWordsQuotedIndividually(out, q) ==
    LET P == NonSpacePos(q)
        isStart(i) == i \in P /\ (i = 1 \/ (i - 1) \notin P)
        starts == {i \in P : isStart(i)}
        wordEnd(i) == MaxOf({j \in i..Len(q) : \A x \in i..j : x \in P})
        word(k) == SubSeq(q, Nth(starts, k), wordEnd(Nth(starts, k)))
        n == Cardinality(starts)
        piece(k) == IF CountOf(word(k), "-") > 0
                    THEN <<DQ>> \o ReplaceAll(word(k), DQ, <<DQ, DQ>>) \o <<DQ>>
                    ELSE word(k)
        RECURSIVE glue(_)
        glue(k) == IF k > n THEN <<>>
                   ELSE IF k = n THEN piece(k)
                   ELSE piece(k) \o <<" ">> \o glue(k + 1)
    IN  out = glue(1)

\* Every hyphen of q stands between two word characters, as in ds18b20-like.
HyphensInsideWords(q) ==
    \A i \in 1..Len(q) :
        q[i] = "-" => /\ i > 1 /\ i < Len(q)
                      /\ q[i - 1] \notin WhiteSpace \cup {"-", DQ}
                      /\ q[i + 1] \notin WhiteSpace \cup {"-", DQ}

\* C2: for a query of two or more words of which at least one holds a hyphen
\* (inside the word, as in `analog ds18b20-like sensor`), buildFTSQuery quotes
\* only the hyphenated words, each on its own, leaves the other words unquoted
\* and joins the words with single spaces.
C2_HyphenWordsQuotedIndividually ==
    (/\ qpc = "done"
     /\ NumRuns(query, WhiteSpace) >= 2
     /\ CountOf(query, "-") > 0
     /\ HyphensInsideWords(query))
        => IsWordsQuotedIndividually(ftsQuery, query)

\* C3: when the trimmed query splits on "-" into two or more non-empty
\* segments, the result is the whole trimmed query inside one pair of double
\* quotes with every embedded double quote doubled.
C3_ModelNumberQuotedWhole ==
    (qpc = "done" /\ NumRuns(TrimSpace(query), {"-"}) >= 2)
        => IsQuotedPhrase(ftsQuery, TrimSpace(query))

\* C3 witness: a query with surrounding white space, two hyphen-separated
\* segments and an embedded double quote has been built.
C3_Witness ==
    /\ qpc = "done"
    /\ NumRuns(TrimSpace(query), {"-"}) >= 2
    /\ CountOf(query, DQ) > 0
    /\ query # TrimSpace(query)

\* C4: an empty or white-space-only query yields the empty string, and a
\* query without a hyphen yields its words unquoted, joined by one space each.
C4_PlainWordsSingleSpaced ==
    qpc = "done" =>
        /\ (\A i \in 1..Len(query) : query[i] \in WhiteSpace) => ftsQuery = <<>>
        /\ CountOf(query, "-") = 0 => IsWordsSingleSpaced(ftsQuery, query)

\* C4 witness: a hyphen-free query of two words separated by more than one
\* white-space character (a tab among them) has been built.
C4_Witness ==
    /\ qpc = "done"
    /\ CountOf(query, "-") = 0
    /\ NumRuns(query, WhiteSpace) >= 2
    /\ CountOf(query, "\t") > 0
    /\ Len(ftsQuery) < Len(TrimSpace(query))

----------------------------------------------------------------------------
(* Properties of the classifier, checked under SpecCat.                    *)

\* p is a prefix of s when letter case is ignored.
HasPrefixFold(s, p) ==
    /\ Len(s) >= Len(p)
    /\ \A i \in 1..Len(p) : ToLowerChar(s[i]) = ToLowerChar(p[i])

\* t is what follows the last "/" of s, or all of s when s holds no "/".
IsFinalSegment(t, s) ==
    /\ CountOf(t, "/") = 0
    /\ HasSuffix(s, t)
    /\ Len(t) < Len(s) => s[Len(s) - Len(t)] = "/"

\* C5: the type is the final slash-separated segment of a non-empty
\* category, and "unknown" for the empty category.
C5_TypeIsFinalSegmentOrUnknown ==
    cpc = "done" =>
        /\ category # <<>> => IsFinalSegment(devType, category)
        /\ category = <<>> => devType = StrUnknown

\* C6: the domain is software when the category, ignoring case, starts with
\* libraries/, frameworks/, applications/ or software/; else protocol when it
\* starts with protocols/ or protocol/; else hardware.
C6_DomainByPrefix ==
    cpc = "done" =>
        LET sw == \E p \in {StrLibraries, StrFrameworks, StrApplications, StrSoftware} :
                      HasPrefixFold(category, p)
            pr == \E p \in {StrProtocols, StrProtocol} : HasPrefixFold(category, p)
        IN  /\ domain \in {DomainHardware, DomainSoftware, DomainProtocol}
            /\ sw => domain = DomainSoftware
            /\ (~sw /\ pr) => domain = DomainProtocol
            /\ (~sw /\ ~pr) => domain = DomainHardware

\* C6 witness: a category spelled with capitals was classified as software,
\* which only the lowercased comparison allows.
C6_Witness ==
    /\ cpc = "done"
    /\ domain = DomainSoftware
    /\ category # ToLower(category)

----------------------------------------------------------------------------
(* Properties of the id generator, checked under SpecID.                   *)

\* s lowercased, each character outside class that starts a run replaced by
\* one "-" and the rest of the run dropped.
RunsCollapsed(s, class) ==
    LET low == [i \in 1..Len(s) |-> ToLowerChar(s[i])]
        kept == {i \in 1..Len(s) : low[i] \in class \/ i = 1 \/ low[i - 1] \in class}
    IN  [k \in 1..Cardinality(kept) |->
            IF low[Nth(kept, k)] \in class THEN low[Nth(kept, k)] ELSE "-"]

\* C7: the id is the normalized category, a "-", and the normalized model
\* (lowercased, runs of non-alphanumerics collapsed to one "-", leading and
\* trailing "-" trimmed); it holds only characters of [a-z0-9-]; and it is
\* sensors-temperature-ds18b20 for sensors/temperature and DS18B20.
C7_DeviceIDNormalized ==
    cpc = "done" =>
        LET slashed == [i \in 1..Len(category) |->
                            IF category[i] = "/" THEN "-" ELSE category[i]]
            c == RunsCollapsed(slashed, LowerAlnum \cup {"-"})
            mAll == RunsCollapsed(model, LowerAlnum)
            alnum == {i \in 1..Len(mAll) : mAll[i] \in LowerAlnum}
            m == IF alnum = {} THEN <<>> ELSE SubSeq(mAll, MinOf(alnum), MaxOf(alnum))
        IN  /\ deviceID = c \o <<"-">> \o m
            /\ \A i \in 1..Len(deviceID) : deviceID[i] \in LowerAlnum \cup {"-"}
            /\ (category = StrSensorsTemperature /\ model = StrDS18B20) =>
                  deviceID = <<"s", "e", "n", "s", "o", "r", "s", "-",
                               "t", "e", "m", "p", "e", "r", "a", "t", "u", "r", "e", "-",
                               "d", "s", "1", "8", "b", "2", "0">>

\* C7 witness: the id of category sensors/temperature and model DS18B20 has
\* been generated.
C7_Witness ==
    /\ cpc = "done"
    /\ category = StrSensorsTemperature
    /\ model = StrDS18B20
    /\ Len(deviceID) = 27

----------------------------------------------------------------------------
(* Properties of the pinout extractor, checked under SpecPin.              *)

\* A pipe-delimited line that contains "Pin".
IsPinHeaderLine(l) == CountOf(l, "|") > 0 /\ Contains(l, <<"P", "i", "n">>)

\* A markdown table separator: pipes and dashes only.
IsSeparatorLine(l) ==
    /\ CountOf(l, "|") > 0
    /\ CountOf(l, "-") > 0
    /\ \A i \in 1..Len(l) : l[i] \in {"|", "-", ":", " "}

\* The cells of a row: the pieces between pipes, trimmed, empty ones dropped.
RowCells(l) == TrimmedNonEmpty(Split(l, "|"))

\* A data row with at least three cells whose first cell is a decimal number.
IsWellFormedRow(l) ==
    /\ Len(RowCells(l)) >= 3
    /\ \A i \in 1..Len(RowCells(l)[1]) : RowCells(l)[1][i] \in Digits

\* A header line, a separator line, then well-formed rows only.
IsWellFormedTable(b) ==
    /\ Len(b) >= 2
    /\ IsPinHeaderLine(b[1])
    /\ IsSeparatorLine(b[2])
    /\ \A k \in 3..Len(b) : IsWellFormedRow(b[k])

\* C1: for a body made of a header line containing "Pin", a separator line
\* and N well-formed data rows (cells may be the "-" placeholder),
\* extractPinouts returns exactly N records, one per row, in row order.
C1_OneRecordPerWellFormedRow ==
    (pos = Len(body) /\ IsWellFormedTable(body)) =>
        /\ Len(pinouts) = Len(body) - 2
        /\ \A k \in 1..Len(pinouts) :
              pinouts[k].PhysicalPin = DecimalValue(RowCells(body[k + 2])[1])

----------------------------------------------------------------------------
(* Properties of the storage writer and GetDevice, checked under SpecStore. *)

\* The rows of the full-text index written for an id.
FtsRowsOf(id) == {i \in DOMAIN search_fts : search_fts[i].device_id = id}

\* C9: after any sequence of upsertDevice and clearAll calls in which no
\* storage statement failed, the full-text index holds exactly one entry
\* for each id of the device table and none for any other id, and the entry
\* carries the name and the body of the latest upsert of the id.
C9_OneFtsEntryPerDevice ==
    faults = 0 =>
        /\ \A id \in DOMAIN devices :
              /\ Cardinality(FtsRowsOf(id)) = 1
              /\ \A i \in FtsRowsOf(id) :
                    (id \in DOMAIN upserts /\ ~upserts[id].err) =>
                        /\ search_fts[i].name = upserts[id].device.Name
                        /\ search_fts[i].content = upserts[id].device.Content
        /\ \A i \in DOMAIN search_fts : search_fts[i].device_id \in DOMAIN devices

\* The shape of a metadata value without its Go types: strings, numbers,
\* lists and maps keyed by strings.
RECURSIVE Structure(_)
Structure(x) ==
    CASE x.t = "string" -> [shape |-> "string", of |-> x.v]
      [] x.t \in {"int", "float64"} -> [shape |-> "number", of |-> x.v]
      [] x.t = "[]string" ->
            [shape |-> "list", of |-> [i \in DOMAIN x.v |-> [shape |-> "string", of |-> x.v[i]]]]
      [] x.t = "[]interface {}" ->
            [shape |-> "list", of |-> [i \in DOMAIN x.v |-> Structure(x.v[i])]]
      [] x.t = "map[string]interface {}" ->
            [shape |-> "map", of |-> [k \in DOMAIN x.v |-> Structure(x.v[k])]]

\* The device read has the domain, type, name and metadata of the device written.
SameDevice(read, written) ==
    /\ read.Domain = written.Domain
    /\ read.Type = written.Type
    /\ read.Name = written.Name
    /\ Structure(GoStringMap(read.Metadata)) = Structure(GoStringMap(written.Metadata))

\* C10: when the latest storage call is GetDevice, it returned no error; for
\* an id whose latest upsertDevice succeeded it returned a device with the
\* domain, type, name and structurally equal metadata of that upsert; for an
\* id never written it returned no device.
C10_ReadReturnsLastWrite ==
    (got # Nil /\ got[1].at = calls) =>
        /\ ~got[1].res.err
        /\ (got[1].id \in DOMAIN upserts /\ ~upserts[got[1].id].err) =>
              /\ got[1].res.device # Nil
              /\ SameDevice(got[1].res.device[1], upserts[got[1].id].device)
        /\ got[1].id \notin DOMAIN upserts => got[1].res.device = Nil

\* FileSw and then FileAlias were written under their common id, and
\* GetDevice returned the name and the type of FileAlias.
C10_Witness ==
    /\ got # Nil
    /\ got[1].at = calls
    /\ got[1].id \in DOMAIN upserts
    /\ upserts[got[1].id].n >= 2
    /\ ~upserts[got[1].id].err
    /\ upserts[got[1].id].device.Path = FileAlias.path
    /\ got[1].res.device # Nil
    /\ got[1].res.device[1].Name = <<"d", "s">>
    /\ got[1].res.device[1].Domain = DomainHardware
    /\ "model" \in DOMAIN got[1].res.device[1].Metadata

----------------------------------------------------------------------------
(* Properties of the indexing pass, checked under Spec.                    *)

\* The three ways the frontmatter of a file can be missing or broken.
FrontmatterAbsent(c) == ~HasPrefix(c, StrDelimOpen)

FrontmatterUnterminated(c) ==
    /\ HasPrefix(c, StrDelimOpen)
    /\ Index(SubSeq(c, 5, Len(c)), StrDelimClose) = -1

FrontmatterMalformed(c) ==
    /\ HasPrefix(c, StrDelimOpen)
    /\ Index(SubSeq(c, 5, Len(c)), StrDelimClose) # -1
    /\ ~YamlOk(SubSeq(c, 5, Index(SubSeq(c, 5, Len(c)), StrDelimClose) + 4))

\* The entry of the latest callback is a readable markdown file.
LastIsReadableMarkdown ==
    /\ last # Nil
    /\ last[1].outcome # "skipped"
    /\ WalkOrder[last[1].entry].readable

\* The latest callback parsed its file into a document with empty metadata
\* and the whole file as body, and did not count the file as an error.
LastRecovered ==
    /\ ~last[1].parse[1].err
    /\ last[1].parse[1].doc[1].Metadata = EmptyMap
    /\ last[1].parse[1].doc[1].Content = WalkOrder[last[1].entry].content
    /\ last[1].outcome \notin {"parse failed", "insert failed"}

\* C8: parsing a readable file never fails because of its frontmatter: when
\* the opening delimiter is absent, the closing delimiter is missing or the
\* delimited block is malformed, the parser yields a document with empty
\* metadata and the whole file as body, and (no storage statement failing)
\* the pass does not count the file as an error.
C8_FrontmatterNeverFailsParse ==
    (faults = 0 /\ LastIsReadableMarkdown
       /\ (\/ FrontmatterAbsent(WalkOrder[last[1].entry].content)
           \/ FrontmatterUnterminated(WalkOrder[last[1].entry].content)
           \/ FrontmatterMalformed(WalkOrder[last[1].entry].content)))
    => LastRecovered

\* The files of the current pass that parsed, as handed to the callback.
ParsedThisPass == {WalkOrder[i] : i \in walked} \cap ParsedFiles

\* A clearing pass is running or has returned its result.
InClearingPass == ipc \in {"walking", "returned"} /\ clearOpt /\ ~retErr

\* C11: during and after a pass that cleared the tables, every device row,
\* every full-text row and every pinout row was written by this pass from a
\* file it visited, the full-text rows are as many as the files counted as
\* successes, and when no file was visited there is no device and no pinout.
C11_ClearingPassLeavesNoResidue ==
    InClearingPass =>
        /\ \A id \in DOMAIN devices :
              \E f \in ParsedThisPass :
                 /\ DeviceOf[f].ID = id
                 /\ devices[id].path = f.path
                 /\ devices[id].content = DeviceOf[f].Content
        /\ \A k \in DOMAIN search_fts :
              \E f \in ParsedThisPass :
                 /\ DeviceOf[f].ID = search_fts[k].device_id
                 /\ DeviceOf[f].Content = search_fts[k].content
        /\ Len(search_fts) = result.SuccessCount
        /\ \A key \in DOMAIN pinoutRows :
              \E f \in ParsedThisPass :
                 /\ DeviceOf[f].ID = key[1]
                 /\ \E n \in DOMAIN PinoutsOf[f] : PinoutsOf[f][n].PhysicalPin = key[2]
        /\ walked = {} => devices = EmptyMap /\ pinoutRows = EmptyMap

\* An earlier pass indexed README.md (its guide is stored), and a second,
\* clearing pass over a directory without it indexed one file with pinouts:
\* the README device is gone and the one device of this pass is there.
C11_Witness ==
    /\ InClearingPass
    /\ ipc = "returned"
    /\ passes = 2
    /\ faults = 0
    /\ "overview" \in DOMAIN guides
    /\ 1 \notin walked
    /\ DeviceOf[FilePlain].ID \notin DOMAIN devices
    /\ Cardinality(DOMAIN devices) = 1
    /\ pinoutRows # EmptyMap
    /\ Len(search_fts) = 1

\* result.DevicesByType[k], 0 for a key the map does not hold.
DomainCount(res, k) == IF k \in DOMAIN res.DevicesByType THEN res.DevicesByType[k] ELSE 0

\* The callback ran in this step.
CallbackRan == visits' = visits + 1

\* C12: a callback whose InsertPinouts failed after its InsertDevice
\* succeeded leaves the device row of the file in the table, adds one to
\* SuccessCount and to the count of the device's domain, and leaves
\* ErrorCount as it was.
C12_PinoutFailureKeepsDevice ==
    [][ (CallbackRan /\ last'[1].outcome = "pinouts failed") =>
            /\ DeviceOf[WalkOrder[last'[1].entry]].ID \in DOMAIN devices'
            /\ devices'[DeviceOf[WalkOrder[last'[1].entry]].ID].path
                  = WalkOrder[last'[1].entry].path
            /\ devices'[DeviceOf[WalkOrder[last'[1].entry]].ID].name
                  = DeviceOf[WalkOrder[last'[1].entry]].Name
            /\ result'.SuccessCount = result.SuccessCount + 1
            /\ DomainCount(result', DeviceOf[WalkOrder[last'[1].entry]].Domain)
                  = DomainCount(result, DeviceOf[WalkOrder[last'[1].entry]].Domain) + 1
            /\ result'.ErrorCount = result.ErrorCount ]_vars

\* InsertPinouts failed at the second row of FileHw1: its device and its
\* first pinout are stored and the file is the one success of the pass.
C12_Witness ==
    /\ last # Nil
    /\ last[1].outcome = "pinouts failed"
    /\ WalkOrder[last[1].entry] = FileHw1
    /\ DeviceOf[FileHw1].ID \in DOMAIN devices
    /\ <<DeviceOf[FileHw1].ID, 1>> \in DOMAIN pinoutRows
    /\ <<DeviceOf[FileHw1].ID, 2>> \notin DOMAIN pinoutRows
    /\ result.SuccessCount = 1
    /\ result.ErrorCount = 0
    /\ DomainCount(result, DomainHardware) = 1

\* No row of the table pinouts was added or changed in this step.
NoPinoutWritten ==
    \A key \in DOMAIN pinoutRows' : key \in DOMAIN pinoutRows /\ pinoutRows'[key] = pinoutRows[key]

\* C13: a callback whose parse or whose InsertDevice failed adds exactly one
\* to ErrorCount and nothing to SuccessCount, writes no pinout row, and
\* leaves the walk running; and every callback on a file that parses and
\* whose statements the storage accepts, whatever failed before it, ends with
\* the file's device row written and its full-text row added.
C13_FileFailureCountedWalkGoesOn ==
    [][ CallbackRan =>
          /\ last'[1].outcome \in {"parse failed", "insert failed"} =>
                /\ result'.ErrorCount = result.ErrorCount + 1
                /\ result'.SuccessCount = result.SuccessCount
                /\ result'.TotalFiles = result.TotalFiles + 1
                /\ NoPinoutWritten
                /\ ipc' = "walking"
                /\ ~retErr'
          /\ (/\ last'[1].outcome # "skipped"
              /\ WalkOrder[last'[1].entry] \in ParsedFiles
              /\ JsonOk(GoStringMap(DeviceOf[WalkOrder[last'[1].entry]].Metadata))
              /\ faults' = faults) =>
                /\ last'[1].outcome = "indexed"
                /\ DeviceOf[WalkOrder[last'[1].entry]].ID \in DOMAIN devices'
                /\ devices'[DeviceOf[WalkOrder[last'[1].entry]].ID].path
                      = WalkOrder[last'[1].entry].path
                /\ Len(search_fts') = Len(search_fts) + 1
                /\ result'.SuccessCount = result.SuccessCount + 1 ]_vars

\* A file of the pass failed and a later file of the same pass was indexed.
C13_Witness ==
    /\ ipc = "walking"
    /\ last # Nil
    /\ last[1].outcome = "indexed"
    /\ Cardinality(walked) = 2
    /\ result.TotalFiles = 2
    /\ result.ErrorCount = 1
    /\ result.SuccessCount = 1
    /\ DeviceOf[WalkOrder[last[1].entry]].ID \in DOMAIN devices

\* No row of the tables devices, pinouts and guides was added or changed in
\* this step, and no row was added to search_fts.
NothingWritten ==
    /\ \A id \in DOMAIN devices' : id \in DOMAIN devices /\ devices'[id] = devices[id]
    /\ NoPinoutWritten
    /\ \A id \in DOMAIN guides' : id \in DOMAIN guides /\ guides'[id] = guides[id]
    /\ search_fts' \in {search_fts, <<>>}

\* C14: a call of IndexDocumentation with opts.Clear in which a statement of
\* ClearDatabase fails returns an error and no result, having run no
\* callback and written no device, pinout or guide row; and the only step
\* that follows is the start of another call.
C14_ClearFailureIsFatal ==
    [][ /\ (passes' = passes + 1 /\ clearOpt' /\ faults' > faults) =>
              /\ ipc' = "returned"
              /\ retErr'
              /\ result' = Nil
              /\ walked' = {}
              /\ visits' = visits
              /\ NothingWritten
        /\ (ipc = "returned" /\ retErr) => passes' = passes + 1 ]_vars

\* A first pass indexed a file; in the second call the second statement of
\* ClearDatabase failed: the call returned its error and no result, the
\* full-text rows are deleted and the device row is still there.
C14_Witness ==
    /\ ipc = "returned"
    /\ retErr
    /\ clearOpt
    /\ result = Nil
    /\ passes = 2
    /\ visits >= 1
    /\ walked = {}
    /\ devices # EmptyMap
    /\ search_fts = <<>>

----------------------------------------------------------------------------
(* Search results.                                                         *)

\* The entries of search_fts that match the query of a call and belong to a
\* device with the domain and the type the call asks for.
MatchingEntries(opts) ==
    {k \in DOMAIN search_fts :
        /\ RowMatches(search_fts[k], buildFTSQuery(opts.Query))
        /\ search_fts[k].device_id \in DOMAIN devices
        /\ opts.Domain # Nil => devices[search_fts[k].device_id].domain = opts.Domain[1]
        /\ opts.Type # Nil => devices[search_fts[k].device_id].type = opts.Type[1]}

\* The number of hits of a page: of n hits in all, those from offset on, at
\* most limit of them.
PageSize(n, limit, offset) ==
    IF n <= offset THEN 0 ELSE IF n - offset < limit THEN n - offset ELSE limit

\* The latest storage call is a SearchDevices call that returned no error.
Searched == found # Nil /\ found[1].at = calls /\ ~found[1].res.err

\* C15: every hit of SearchDevices is a device with a full-text entry that
\* matches the query, and has the domain and the type the call asks for when
\* it asks for one; the hits come by ascending rank; and they are the page,
\* from the offset on and of at most limit hits, of the matching entries put
\* in an order of ascending rank.
C15_SearchReturnsMatchingPage ==
    Searched =>
        LET hits == found[1].res.results
            opts == found[1].opts
            rank == found[1].rank
            all  == MatchingEntries(opts)
        IN  /\ \A i \in DOMAIN hits :
                /\ \E k \in all : search_fts[k].device_id = hits[i].ID
                /\ opts.Domain # Nil => hits[i].Domain = opts.Domain[1]
                /\ opts.Type # Nil => hits[i].Type = opts.Type[1]
            /\ \A i, j \in DOMAIN hits : i < j => hits[i].Relevance <= hits[j].Relevance
            /\ Len(hits) = PageSize(Cardinality(all), opts.Limit, opts.Offset)
            /\ \E o \in [1..Cardinality(all) -> all] :
                /\ \A i, j \in DOMAIN o : i < j => o[i] # o[j] /\ rank[o[i]] <= rank[o[j]]
                /\ \A i \in DOMAIN hits :
                    /\ hits[i].ID = search_fts[o[opts.Offset + i]].device_id
                    /\ hits[i].Relevance = rank[o[opts.Offset + i]]

\* FileHw1 and FileSw are in the store, both match the query by their name,
\* and a call asking for the domain software and one hit returned FileSw.
C15_Witness ==
    /\ Searched
    /\ Cardinality(DOMAIN devices) = 2
    /\ \A k \in DOMAIN search_fts : RowMatches(search_fts[k], ftsQuery)
    /\ Len(search_fts) = 2
    /\ found[1].opts.Domain = Some(DomainSoftware)
    /\ found[1].opts.Limit = 1
    /\ Len(found[1].res.results) = 1
    /\ found[1].res.results[1].Domain = DomainSoftware
    /\ found[1].res.results[1].Path = FileSw.path

----------------------------------------------------------------------------
(* Concurrent passes.                                                      *)

\* Pass r has started its clear and has not made its last write.
InReindex(r) == jobs[r].pc \in {"clearing", "walking", "fts", "pinouts", "guides"}

\* C16: while a pass is between the start of its clear and its last write,
\* no other pass takes a step: none clears the database and none writes to it.
C16_ReindexRunsExclude ==
    [][\A r, s \in Runs : (r # s /\ InReindex(r)) => jobs'[s] = jobs[s]]_vars

----------------------------------------------------------------------------
(* A pass stopped before its end.                                          *)

\* The callback of this step counted its file as a success.
CountedSuccess == CallbackRan /\ result'.SuccessCount = result.SuccessCount + 1

\* After the step the row of devices under the id of the file just visited
\* holds the data of that file, and search_fts has an entry with its name
\* and content.
LastPersistedAndSearchable ==
    LET f == WalkOrder[last'[1].entry]
    IN  /\ DeviceOf[f].ID \in DOMAIN devices'
        /\ devices'[DeviceOf[f].ID].domain = DeviceOf[f].Domain
        /\ devices'[DeviceOf[f].ID].type = DeviceOf[f].Type
        /\ devices'[DeviceOf[f].ID].name = DeviceOf[f].Name
        /\ devices'[DeviceOf[f].ID].path = f.path
        /\ devices'[DeviceOf[f].ID].content = DeviceOf[f].Content
        /\ \E k \in DOMAIN search_fts' :
              /\ search_fts'[k].device_id = DeviceOf[f].ID
              /\ search_fts'[k].name = DeviceOf[f].Name
              /\ search_fts'[k].content = DeviceOf[f].Content

\* The step takes back nothing: every id of devices stays, and every entry
\* of search_fts stays as it is.
NothingRolledBack ==
    /\ DOMAIN devices \subseteq DOMAIN devices'
    /\ Len(search_fts) <= Len(search_fts')
    /\ \A k \in DOMAIN search_fts : search_fts'[k] = search_fts[k]

\* The entries the pass has visited whose file has the id of the file of
\* entry i.
VisitsOfSameId(i) ==
    {j \in walked : /\ WalkOrder[j] \in ParsedFiles
                    /\ DeviceOf[WalkOrder[j]].ID = DeviceOf[WalkOrder[i]].ID}

\* The step leaves every row of devices as it is.
DeviceRowsKept ==
    \A id \in DOMAIN devices : id \in DOMAIN devices' /\ devices'[id] = devices[id]

\* The callback of this step ran on a file that parsed and whose device has
\* the id.
VisitedFileOfId(id) ==
    /\ CallbackRan
    /\ WalkOrder[last'[1].entry] \in ParsedFiles
    /\ DeviceOf[WalkOrder[last'[1].entry]].ID = id

\* A row of devices is changed, and a row of pinouts is changed or removed,
\* only by the callback on a file with the id of the row; the changed row of
\* devices is then under the path of that file.
WrittenOverOnlyBySameId ==
    /\ \A id \in DOMAIN devices \cap DOMAIN devices' :
          devices'[id] # devices[id] =>
              /\ VisitedFileOfId(id)
              /\ devices'[id].path = WalkOrder[last'[1].entry].path
    /\ \A key \in DOMAIN pinoutRows :
          (key \notin DOMAIN pinoutRows' \/ pinoutRows'[key] # pinoutRows[key]) =>
              VisitedFileOfId(key[1])

\* Every device row, full-text entry and pinout row belongs to a file the
\* walk of the current pass has visited.
NoRecordOfUnvisitedFile ==
    /\ \A id \in DOMAIN devices : \E i \in walked : WalkOrder[i].path = devices[id].path
    /\ \A k \in DOMAIN search_fts :
          \E f \in ParsedThisPass : DeviceOf[f].ID = search_fts[k].device_id
    /\ \A key \in DOMAIN pinoutRows : \E f \in ParsedThisPass : DeviceOf[f].ID = key[1]

\* C17 as stated: at every point where a pass may be stopped, each file
\* counted as a success got its device row and its full-text entry when it
\* was counted, no later step of the pass takes an entry back or changes a
\* row of devices, and the store holds no record of a file the pass has not
\* visited.
C17_StoppedPassLeavesPartialIndex ==
    /\ [][ /\ CountedSuccess => LastPersistedAndSearchable
           /\ ipc = "walking" => NothingRolledBack /\ DeviceRowsKept ]_vars
    /\ [](ipc = "walking" => NoRecordOfUnvisitedFile)

\* The files the pass has counted as a success when no statement has failed:
\* the files visited that parsed and whose metadata json.Marshal takes.
CountedFiles ==
    {f \in ParsedThisPass : JsonOk(GoStringMap(DeviceOf[f].Metadata))}

\* The pass stopped here: every file counted as a success has its
\* full-text entry and a row of devices under its id, which is under its
\* path or under the path of a file with the same id visited after it.
StoppedPassHoldsCountedFiles ==
    \A i \in walked :
        WalkOrder[i] \in CountedFiles =>
            /\ DeviceOf[WalkOrder[i]].ID \in DOMAIN devices
            /\ \E k \in DOMAIN search_fts :
                  /\ search_fts[k].device_id = DeviceOf[WalkOrder[i]].ID
                  /\ search_fts[k].name = DeviceOf[WalkOrder[i]].Name
                  /\ search_fts[k].content = DeviceOf[WalkOrder[i]].Content
            /\ \E j \in VisitsOfSameId(i) :
                  /\ j >= i
                  /\ devices[DeviceOf[WalkOrder[i]].ID].path = WalkOrder[j].path

\* C17 as it holds: each file counted as a success got the device row of
\* its id, with its data, and its full-text entry when it was counted; no
\* later step of the pass removes a device id or changes a full-text entry;
\* a row of devices is changed and the pinouts of an id are changed or
\* removed only by the callback on a later file with the same id, so that
\* where the pass stops (shown on the passes in which no statement failed)
\* each file counted has its entry and a device row of its own or of a later
\* file with its id; and in a pass that cleared the store when it started,
\* the store holds no record of a file the pass has not visited.
C17_StoppedClearingPassLeavesPartialIndex ==
    /\ [][ /\ CountedSuccess => LastPersistedAndSearchable
           /\ ipc = "walking" => NothingRolledBack /\ WrittenOverOnlyBySameId ]_vars
    /\ []((ipc = "walking" /\ faults = 0) => StoppedPassHoldsCountedFiles)
    /\ []((ipc = "walking" /\ clearOpt) => NoRecordOfUnvisitedFile)

\* A second pass cleared what the first had stored and is stopped after its
\* first file, FileHw1: the store holds the device, the full-text entry and
\* the pinouts of FileHw1 and nothing else.
C17_Witness ==
    /\ ipc = "walking"
    /\ clearOpt
    /\ passes = 2
    /\ "overview" \in DOMAIN guides
    /\ result.SuccessCount = 1
    /\ last # Nil
    /\ WalkOrder[last[1].entry] = FileHw1
    /\ DOMAIN devices = {DeviceOf[FileHw1].ID}
    /\ Len(search_fts) = 1
    /\ pinoutRows # EmptyMap

----------------------------------------------------------------------------
(* The publish tool.                                                       *)

\* C18: a call of the publish tool with wait_for_reindex that triggered a
\* reindex has returned only after it saw the status "idle", and a call
\* whose upload failed has made no call to trigger a reindex.
C18_PublishWaitsForReindex ==
    /\ (pub.tool = "publish" /\ pub.pc = "returned" /\ pub.wait /\ pub.triggered)
            => pub.sawIdle
    /\ (pub.tool = "publish" /\ pub.uploadFailed) => ~pub.triggerCalled

----------------------------------------------------------------------------
(* The states of the pinout scanner.                                       *)

\* The scanner took the line body[pos + 1] in this step.
Scanned == pos' = pos + 1

\* A pipe-delimited line that contains a dash.
IsPipeDashLine(l) == CountOf(l, "|") > 0 /\ CountOf(l, "-") > 0

\* A line that is neither a header nor a pipe-delimited line with a dash.
IsOtherLine(l) == ~IsPipeDashLine(l) /\ ~IsPinHeaderLine(l)

\* C19: when a header line has been seen and the table has not started, a
\* line that is no pipe-delimited line with a dash (and no header) puts the
\* scanner back to searching; and in a body that starts with a header line
\* and such a line, no table starts and no record is made for as long as no
\* other header line comes.
C19_HeaderFoundFallsBackToSearching ==
    /\ [][ (Scanned /\ headerFound /\ ~inTable /\ IsOtherLine(body[pos + 1]))
              => (~headerFound' /\ ~inTable') ]_vars
    /\ []( ( /\ pos >= 2
             /\ IsPinHeaderLine(body[1])
             /\ IsOtherLine(body[2])
             /\ \A k \in 3..pos : ~IsPinHeaderLine(body[k]) )
           => (~inTable /\ pinouts = <<>>) )

\* The step appends one record, that of the row just scanned, after the
\* records made before.
AppendsRecordOfRow ==
    /\ Len(pinouts') = Len(pinouts) + 1
    /\ SubSeq(pinouts', 1, Len(pinouts)) = pinouts
    /\ pinouts'[Len(pinouts')].PhysicalPin = DecimalValue(RowCells(body[pos + 1])[1])

\* C20: a line without a pipe (a blank line is one) met inside a table ends
\* the table and puts the scanner back to searching; outside a table no line
\* yields a record, a table starts only at a pipe-delimited line with a dash
\* after a header line was seen, and a header is only found at a header
\* line; records are only ever appended, and inside a table, the first or a
\* later one, a well-formed row that is not a pipe-delimited line with a
\* dash appends its record.
C20_TableEndsAtLineWithoutPipe ==
    [][ Scanned =>
          /\ (inTable /\ CountOf(body[pos + 1], "|") = 0)
                => (~inTable' /\ ~headerFound' /\ pinouts' = pinouts)
          /\ ~inTable => pinouts' = pinouts
          /\ (~inTable /\ inTable') => (headerFound /\ IsPipeDashLine(body[pos + 1]))
          /\ (~headerFound /\ headerFound') => IsPinHeaderLine(body[pos + 1])
          /\ pinouts' = pinouts \/ AppendsRecordOfRow
          /\ (inTable /\ IsWellFormedRow(body[pos + 1]) /\ ~IsPipeDashLine(body[pos + 1]))
                => AppendsRecordOfRow ]_vars

\* A table of one row, a line of prose, and a second table of one row: both
\* records are returned, that of the first table first.
C20_Witness ==
    /\ body = <<LineHeader, LineSeparator, LineRow1, LineText,
                LineHeader, LineSeparator, LineRowFull>>
    /\ pos = Len(body)
    /\ Len(pinouts) = 2
    /\ pinouts[1].PhysicalPin = 1
    /\ pinouts[2].PhysicalPin = 3

----------------------------------------------------------------------------
(* Rows the extractor drops, checked under SpecPin.                        *)

\* strconv.Atoi accepts the text: an optional sign, then decimal digits only.
IsInteger(t) ==
    LET ds == IF t # <<>> /\ t[1] \in {"+", "-"} THEN SubSeq(t, 2, Len(t)) ELSE t
    IN  ds # <<>> /\ \A i \in 1..Len(ds) : ds[i] \in Digits

\* A table row with fewer than three non-empty cells, or whose first cell
\* is no integer.
IsDroppedRow(l) ==
    /\ CountOf(l, "|") > 0
    /\ Len(RowCells(l)) < 3 \/ ~IsInteger(RowCells(l)[1])

\* The sequence without its i-th element.
RemoveAt(s, i) == SubSeq(s, 1, i - 1) \o SubSeq(s, i + 1, Len(s))

\* The scanner is inside a table once it has taken the first k lines of b.
InTableAfter(b, k) ==
    ScanFrom(SubSeq(b, 1, k), 1,
             [inTable |-> FALSE, headerFound |-> FALSE, pinouts |-> <<>>]).inTable

\* What the walk callback does, on a new database, with a hardware file
\* whose body is the lines b: the counts and the pinout rows it leaves.
IndexedBody(b) ==
    LET parsed == ParseContent([err |-> FALSE,
                                fm |-> YamlUnmarshal(<<"m", "\n", "h">>),
                                body |-> Join(b, <<"\n">>)])
        r == WalkFile([devices |-> EmptyMap, search_fts |-> <<>>,
                       pinoutRows |-> EmptyMap, guides |-> EmptyMap],
                      [ZeroResult EXCEPT !.TotalFiles = 1],
                      FileHw1.path, parsed, "none", 0)
    IN  [result |-> r.result, pins |-> {key[2] : key \in DOMAIN r.db.pinoutRows}]

\* C21: a table row with fewer than 3 non-empty cells, or whose first cell
\* is not an integer, yields no pinout record and leaves the scanner inside
\* the table, with the counts of the pass as they were; the records
\* extracted from the whole body are those of the body without the row, and
\* the file is counted as a success with no error, as it is without the row.
C21_MalformedRowIsDroppedSilently ==
    /\ [][ (Scanned /\ IsDroppedRow(body[pos + 1]))
              => /\ pinouts' = pinouts
                 /\ inTable => (inTable' /\ headerFound' = headerFound)
                 /\ result' = result ]_vars
    /\ []( pos = Len(body) =>
             \A i \in 1..Len(body) :
                (IsDroppedRow(body[i]) /\ InTableAfter(body, i - 1)) =>
                    LET with == IndexedBody(body)
                    IN  /\ pinouts = extractPinouts(RemoveAt(body, i))
                        /\ with = IndexedBody(RemoveAt(body, i))
                        /\ with.result =
                              [ZeroResult EXCEPT
                                  !.TotalFiles = 1, !.SuccessCount = 1,
                                  !.DevicesByType = Increment(EmptyMap, DomainHardware)]
                        /\ with.pins = {pinouts[k].PhysicalPin : k \in 1..Len(pinouts)} )

\* A table whose first row has a pin that is no number and whose second
\* row is well formed: the one record is that of the second row. The same
\* with a first row of two cells.
C21_Witness ==
    /\ body \in {<<LineHeader, LineSeparator, LineRowBadPin, LineRow1>>,
                 <<LineHeader, LineSeparator, LineRowShort, LineRow1>>}
    /\ pos = Len(body)
    /\ inTable
    /\ Len(pinouts) = 1
    /\ pinouts[1].PhysicalPin = 1

----------------------------------------------------------------------------
(* Properties of InsertPinouts, checked under SpecPins.                    *)

\* The row INSERT writes for a pinout of the list.
PinoutRowOf(pin) ==
    [ gpio_num      |-> pin.GPIO,
      name          |-> pin.Name,
      default_pull  |-> pin.DefaultPull,
      alt_functions |-> IF pin.AltFunctions = <<>> THEN Nil
                        ELSE Some(JsonMarshal(GoStrings(pin.AltFunctions))),
      description   |-> pin.Description ]

\* The physical pins of a list, and the last place of a pin in the list.
PinsOfList(pins) == {pins[k].PhysicalPin : k \in 1..Len(pins)}

LastPlace(pins, p) ==
    CHOOSE k \in 1..Len(pins) :
        /\ pins[k].PhysicalPin = p
        /\ \A j \in (k + 1)..Len(pins) : pins[j].PhysicalPin # p

\* InsertPinouts returned in this step.
PinoutsUpserted == pinCall' # pinCall

\* C22: an InsertPinouts call leaves the pinout rows of every other device
\* as they were; a call that returns no error leaves, for its device, the
\* rows of the pins that are not in its list as they were and, for every
\* pin of its list, one row: that of the last record of the list with the
\* pin; a call that returns an error leaves, for every pin of its device,
\* either the row that was there or a row of its list, and adds no other
\* pin.
C22_PinoutsLastWriteWins ==
    [][ PinoutsUpserted =>
          LET c == pinCall'[1]
              mine == {<<c.id, p>> : p \in PinsOfList(c.pins)}
          IN  /\ \A key \in (DOMAIN pinoutRows \cup DOMAIN pinoutRows') \ mine :
                    /\ key \in DOMAIN pinoutRows
                    /\ key \in DOMAIN pinoutRows'
                    /\ pinoutRows'[key] = pinoutRows[key]
              /\ ~c.err =>
                    \A p \in PinsOfList(c.pins) :
                        /\ <<c.id, p>> \in DOMAIN pinoutRows'
                        /\ pinoutRows'[<<c.id, p>>] = PinoutRowOf(c.pins[LastPlace(c.pins, p)])
              /\ c.err =>
                    \A key \in mine \cap DOMAIN pinoutRows' :
                        \/ key \in DOMAIN pinoutRows /\ pinoutRows'[key] = pinoutRows[key]
                        \/ \E k \in 1..Len(c.pins) :
                              /\ c.pins[k].PhysicalPin = key[2]
                              /\ pinoutRows'[key] = PinoutRowOf(c.pins[k]) ]_vars

\* The third storage call is an InsertPinouts call whose list gives pin 1
\* twice, and it has returned no error: the device has one row, for pin 1,
\* and it is that of the second of the two records.
C22_Witness ==
    /\ pinCall # Nil
    /\ ~pinCall[1].err
    /\ pinCall[1].at = 3
    /\ pinCall[1].pins = extractPinouts(<<LineHeader, LineSeparator, LineRow1, LineRow1Again>>)
    /\ Len(pinCall[1].pins) = 2
    /\ {key \in DOMAIN pinoutRows : key[1] = pinCall[1].id} = {<<pinCall[1].id, 1>>}
    /\ pinoutRows[<<pinCall[1].id, 1>>].name = <<"Z">>
    /\ pinoutRows[<<pinCall[1].id, 1>>].gpio_num = Some(7)

----------------------------------------------------------------------------
(* Ownership of the pinout rows, checked under Spec.                       *)

\* The pinout rows of a device id.
PinoutKeysOf(id) == {key \in DOMAIN pinoutRows : key[1] = id}

\* C23: in every state of an indexing pass and after it, with or without
\* clear, every pinout row has the id of a device row whose domain is
\* hardware.
C23_PinoutsOwnedByHardwareDevice ==
    \A key \in DOMAIN pinoutRows :
        /\ key[1] \in DOMAIN devices
        /\ devices[key[1]].domain = DomainHardware

\* A first pass has indexed FileAlias, a hardware file with a pinout table,
\* and a second pass, without clear, has indexed FileSw, a software file
\* whose category and model give the same id: the device is the software
\* one and has no pinout row.
C23_Witness ==
    /\ passes = 2
    /\ ~clearOpt
    /\ ipc = "returned"
    /\ last # Nil
    /\ WalkOrder[last[1].entry] = FileSw
    /\ last[1].outcome = "indexed"
    /\ DeviceOf[FileAlias].ID = DeviceOf[FileSw].ID
    /\ DeviceOf[FileAlias].Domain = DomainHardware
    /\ Len(PinoutsOf[FileAlias]) > 0
    /\ UpsertCount(upserts, DeviceOf[FileSw].ID) = 2
    /\ devices[DeviceOf[FileSw].ID].domain = DomainSoftware
    /\ PinoutKeysOf(DeviceOf[FileSw].ID) = {}

----------------------------------------------------------------------------
(* The tags of the full-text entries, checked under SpecStore.             *)

\* The full-text row is the one InsertDevice writes for the device of file f.
RowWrittenFor(row, f) ==
    /\ row.device_id = DeviceOf[f].ID
    /\ row.name = DeviceOf[f].Name
    /\ row.content = DeviceOf[f].Content

\* The files whose frontmatter has a non-empty tags list.
TaggedFiles == {f \in ParsedFiles : Len(extractFrontmatter(f.content).fm.Tags) > 0}

\* C24: the full-text entry written for the device of a file whose
\* frontmatter has a non-empty tags list has, as its tags field, the tags
\* joined by single spaces.
C24_TagsFlattenedIntoFullText ==
    \A i \in DOMAIN search_fts :
        \A f \in TaggedFiles :
            RowWrittenFor(search_fts[i], f) =>
                search_fts[i].tags = Join(extractFrontmatter(f.content).fm.Tags, <<" ">>)

----------------------------------------------------------------------------
(* The name of a device, checked under SpecName.                           *)

\* C25: the name of the device of an indexed file is the model when the
\* frontmatter has a non-empty model; otherwise, when it has a
\* manufacturer, the manufacturer followed by the model; otherwise
\* "Unknown"; it is never empty.
C25_DeviceNameFromMetadata ==
    (naming # Nil /\ naming[1].name # Nil) =>
        LET fm == YamlUnmarshal(naming[1].yaml)
            name == naming[1].name[1]
        IN  /\ name # <<>>
            /\ fm.Model # <<>> => name = fm.Model
            /\ (fm.Model = <<>> /\ fm.Manufacturer # <<>>) =>
                  /\ HasPrefix(name, fm.Manufacturer)
                  /\ HasSuffix(name, fm.Model)
            /\ (fm.Model = <<>> /\ fm.Manufacturer = <<>>) => name = StrUnknownName

----------------------------------------------------------------------------
(* The entries the walk skips, checked under Spec.                         *)

\* The name ends in ".md", in capitals or not.
IsMarkdownName(path) ==
    /\ Len(path) >= 3
    /\ path[Len(path) - 2] = "."
    /\ path[Len(path) - 1] \in {"m", "M"}
    /\ path[Len(path)] \in {"d", "D"}

\* A path that cannot be accessed, a directory, or a file whose name does
\* not end in ".md".
IsSkippedEntry(e) == e.kind = "err" \/ e.kind = "dir" \/ ~IsMarkdownName(e.path)

\* C26: the callback run on a path that cannot be accessed, on a directory
\* or on a file whose name does not end in ".md" (in capitals or not)
\* changes no counter, parses nothing and writes nothing, and the walk goes
\* on; on any other entry it counts a file. When the walk is over
\* IndexDocumentation returns the result, and no error: with the counts at
\* zero when the only path handed to the callback was one that cannot be
\* accessed, as for a root directory that cannot be accessed.
C26_SkippedEntriesChangeNothing ==
    /\ [][ CallbackRan =>
              IF IsSkippedEntry(WalkOrder[last'[1].entry])
              THEN /\ result' = result
                   /\ last'[1].parse = Nil
                   /\ varsDB' = varsDB
                   /\ upserts' = upserts
                   /\ faults' = faults
                   /\ ipc' = "walking"
                   /\ ~retErr'
              ELSE result'.TotalFiles = result.TotalFiles + 1 ]_vars
    /\ [][ (ipc = "walking" /\ ipc' = "returned") =>
              (result' # Nil /\ result' = result /\ ~retErr') ]_vars
    /\ []( ( /\ ipc = "returned"
             /\ ~retErr
             /\ \A i \in walked : WalkOrder[i].kind = "err" )
           => result = ZeroResult )

\* The walk of a pass met a directory and then a path that cannot be
\* accessed, and the pass has returned its result, with every count at zero.
C26_Witness ==
    /\ ipc = "returned"
    /\ ~retErr
    /\ {WalkOrder[i] : i \in walked} = {EntryDir, EntryErr}
    /\ last # Nil
    /\ WalkOrder[last[1].entry] = EntryErr
    /\ last[1].outcome = "skipped"
    /\ result = ZeroResult

----------------------------------------------------------------------------
(* Referential integrity, checked under SpecRuns.                          *)

\* C27: in every state, those between two statements of ClearDatabase, of
\* InsertDevice and of InsertPinouts included, every pinout row and every
\* full-text row has the id of a row of devices.
C27_RowsReferToStoredDevice ==
    /\ \A key \in DOMAIN pinoutRows : key[1] \in DOMAIN devices
    /\ \A i \in DOMAIN search_fts : search_fts[i].device_id \in DOMAIN devices

----------------------------------------------------------------------------
(* The counts of the result, checked under Spec.                           *)

\* The sum of the counts of a map.
RECURSIVE SumOver(_, _)
SumOver(m, keys) ==
    IF keys = {} THEN 0
    ELSE LET k == CHOOSE x \in keys : TRUE
         IN  m[k] + SumOver(m, keys \ {k})

\* C28: whenever IndexDocumentation has a result, after every file of the
\* walk and when the pass has returned, TotalFiles = SuccessCount +
\* ErrorCount and the counts per domain sum to SuccessCount.
C28_CountsAddUp ==
    result # Nil =>
        /\ result.TotalFiles = result.SuccessCount + result.ErrorCount
        /\ SumOver(result.DevicesByType, DOMAIN result.DevicesByType) = result.SuccessCount

\* A pass has returned after two files of the hardware domain were indexed.
C28_Witness ==
    /\ ipc = "returned"
    /\ result # Nil
    /\ result.TotalFiles = 2
    /\ result.SuccessCount = 2
    /\ result.ErrorCount = 0
    /\ DOMAIN result.DevicesByType = {DomainHardware}
    /\ result.DevicesByType[DomainHardware] = 2

----------------------------------------------------------------------------
(* The devices a clearing pass leaves, checked under Spec.                 *)

\* The entries of the current pass that parsed and whose device has the id.
VisitsOfId(id) ==
    {i \in walked : WalkOrder[i] \in ParsedFiles /\ DeviceOf[WalkOrder[i]].ID = id}

\* Every error the pass has counted is a parse error: no InsertDevice call
\* of the pass returned an error.
NoDeviceWriteFailed ==
    result.ErrorCount =
        Cardinality(({WalkOrder[i] : i \in walked} \cap FilePool) \ ParsedFiles)

\* C29: in and after a clearing pass in which no device write failed, the
\* device rows are as many as the distinct ids of the files of the pass that
\* parsed, and the row of an id is that of the file with the id that the
\* walk visited last.
C29_OneDevicePerIdLastFileWins ==
    (InClearingPass /\ NoDeviceWriteFailed) =>
        /\ DOMAIN devices = {DeviceOf[f].ID : f \in ParsedThisPass}
        /\ Cardinality(DOMAIN devices) = Cardinality({DeviceOf[f].ID : f \in ParsedThisPass})
        /\ \A id \in DOMAIN devices :
              LET f == WalkOrder[MaxOf(VisitsOfId(id))]
              IN  /\ devices[id].path = f.path
                  /\ devices[id].name = DeviceOf[f].Name
                  /\ devices[id].domain = DeviceOf[f].Domain
                  /\ devices[id].type = DeviceOf[f].Type
                  /\ devices[id].content = DeviceOf[f].Content
                  /\ devices[id].metadata = JsonMarshal(GoStringMap(DeviceOf[f].Metadata))

\* A clearing pass has indexed README.md, which has no frontmatter, and
\* then f.MD, whose frontmatter is not closed: both have the id "-", and
\* the one device row is that of f.MD.
C29_Witness ==
    /\ ipc = "returned"
    /\ clearOpt
    /\ ~retErr
    /\ {WalkOrder[i] : i \in walked} = {FilePlain, FileUnterminated}
    /\ result.SuccessCount = 2
    /\ DeviceOf[FilePlain].ID = DeviceOf[FileUnterminated].ID
    /\ DOMAIN devices = {DeviceOf[FilePlain].ID}
    /\ devices[DeviceOf[FilePlain].ID].path = FileUnterminated.path

----------------------------------------------------------------------------
(* A failed InsertDevice, checked under SpecStore.                         *)

\* InsertDevice was called for the id in this step and returned an error.
UpsertFailedFor(id) ==
    /\ id \in DOMAIN upserts'
    /\ UpsertCount(upserts', id) = UpsertCount(upserts, id) + 1
    /\ upserts'[id].err

\* C30: an InsertDevice call that returns an error leaves the table devices
\* and the full-text index as they were, so that the id of the file has a
\* device row after the call only if it had one before.
C30_FailedUpsertChangesNothing ==
    [][ \A id \in DOMAIN upserts' :
            UpsertFailedFor(id) =>
                /\ devices' = devices
                /\ search_fts' = search_fts
                /\ id \in DOMAIN devices' => id \in DOMAIN devices ]_vars

====
